---- MODULE Spec2Model ----
(***************************************************************************)
(* A model of the MN business scraper: the sequential file-number run      *)
(* (mn_scraper.py), the scrape unit with its retry loop, the progress      *)
(* checkpoint file, the partitioning of the key space by the two           *)
(* coordinators (mn_scraper_parallel.py, search_by_name_parallel.py) and   *)
(* the consolidation routines (run_auto_save, run_export, merge_results).  *)
(***************************************************************************)
EXTENDS Integers, Sequences, FiniteSets, TLC

VARIABLES
    pc,                   \* position of the sequential run() coroutine
    start_number,         \* MNBusinessScraper.start_number
    resume,               \* the resume argument of run()
    current_file_number,  \* MNBusinessScraper.current_file_number
    consecutive_misses,   \* MNBusinessScraper.consecutive_misses
    progress_file,        \* content of config.PROGRESS_FILE
    output_file,          \* rows of output/businesses.csv (the sequential sink)
    call,                 \* the scrape_business / scrape_business_by_guid call in progress
    hist,                 \* history of the current run (what was loaded, probed, returned)
    runs,                 \* number of times the process has been started
    last_saved,           \* the argument of the latest save_progress call, or -1
    par,                  \* run_parallel: its arguments and the partitions it computed
    fs,                   \* the files the consolidation routines read and write
    merge,                \* the last consolidation: routine, ordered sources, result
    nw,                   \* a name-mode worker (worker_scrape): its position, sets and files
    co,                   \* a coordinator with its workers' tasks and the writers of each file
    cv,                   \* a conversion: the input string and what the function returned
    rw,                   \* a file-number worker (scrape_range): its position, sink, checkpoint
    ad                    \* a call of parse_address or convert_date_to_iso: input and outcome

vars == <<pc, start_number, resume, current_file_number, consecutive_misses,
          progress_file, output_file, call, hist, runs, last_saved, par, fs, merge,
          nw, co, cv, rw, ad>>

extVars == <<nw, co, cv, rw, ad>>

seqVars == <<pc, start_number, resume, current_file_number, consecutive_misses,
             progress_file, output_file, hist, runs, last_saved>>

(***************************************************************************)
(* Configuration (config.py) and the bounds of the model.                  *)
(***************************************************************************)
MAX_RETRIES == 3
CheckpointEvery == 10

\* config.MAX_CONSECUTIVE_MISSES, scaled down (the configured default is 100)
MAX_CONSECUTIVE_MISSES == 3
\* the file numbers under which the registry holds a filing
FiledNumbers == {9, 10}
\* the locators (GUIDs) of the filings, numbered
Guids == {101, 102, 103}
\* how often the process is started
MaxRuns == 2

\* the start numbers the operator passes
StartNumbers == {9, 10}

(***************************************************************************)
(* Records.  A business record is reduced to the three columns the claims  *)
(* read; None is the Python None.                                          *)
(***************************************************************************)
Names == {"", "ACME LLC", "BOLT INC"}
Types == {"", "LLC"}

None == [none |-> TRUE, file_number |-> 0, business_name |-> "", business_type |-> ""]

BusinessRecord(k, n, t) == [none |-> FALSE, file_number |-> k, business_name |-> n, business_type |-> t]

\* Python truth value of scrape_business's result: a dict with keys is true
Truthy(data) == ~data.none

(***************************************************************************)
(* The web session.  A page is what the portal answers to one navigation:  *)
(* raises is the exception the session throws during the search or the     *)
(* navigation, xraises the one it throws while the detail view is read.    *)
(***************************************************************************)
Pages ==
    [raises : {"none", "timeout", "error"},
     no_results : BOOLEAN,
     details_link : BOOLEAN,
     details_url : BOOLEAN,
     title_details : BOOLEAN,
     name : Names,
     type : Types,
     xraises : BOOLEAN]

Page(r, nr, dl, du, td, n, t, x) ==
    [raises |-> r, no_results |-> nr, details_link |-> dl, details_url |-> du,
     title_details |-> td, name |-> n, type |-> t, xraises |-> x]

\* the pages the sequential run is checked with: a timeout, another error, the
\* "no results" text, a result page with neither a details link nor a details
\* URL, a filing with its name and type, and one whose view shows neither
RunPages ==
    {Page("timeout", FALSE, FALSE, FALSE, FALSE, "", "", FALSE),
     Page("error", FALSE, FALSE, FALSE, FALSE, "", "", FALSE),
     Page("none", TRUE, FALSE, FALSE, FALSE, "", "", FALSE),
     Page("none", FALSE, FALSE, FALSE, FALSE, "", "", FALSE),
     Page("none", FALSE, TRUE, FALSE, TRUE, "ACME LLC", "LLC", FALSE),
     Page("none", FALSE, FALSE, TRUE, TRUE, "ACME LLC", "LLC", FALSE),
     Page("none", FALSE, TRUE, FALSE, TRUE, "", "", FALSE)}

\* pages the portal can answer for key k: a number with no filing has no result
PagesFor(k) ==
    {p \in RunPages : k \notin FiledNumbers => (p.raises # "none" \/ p.no_results)}

\* search_by_file_number: every exception is caught and reported as not found
\* (raised: whether an exception leaves the function)
search_by_file_number(p) ==
    IF p.raises # "none" THEN [found |-> FALSE, business_name |-> "", raised |-> FALSE]
    ELSE IF p.no_results THEN [found |-> FALSE, business_name |-> "", raised |-> FALSE]
    ELSE IF p.details_link \/ p.details_url
         THEN [found |-> TRUE, business_name |-> p.name, raised |-> FALSE]
    ELSE [found |-> FALSE, business_name |-> "", raised |-> FALSE]

\* extract_business_data: the dictionary starts with the key and the name it
\* was given; an exception while reading the page is caught and leaves the
\* fields read so far (here: none of them)
extract_business_data(k, business_name, p) ==
    IF p.xraises THEN BusinessRecord(k, business_name, "")
    ELSE BusinessRecord(k, business_name, p.type)

(***************************************************************************)
(* The scrape unit.  A call is one invocation of scrape_business or        *)
(* scrape_business_by_guid; each step is one pass of its retry loop.       *)
(***************************************************************************)
NoCall ==
    [fn |-> "none", key |-> 0, attempt |-> 0, status |-> "idle", result |-> None,
     last_exc |-> FALSE, sleeps |-> 0]

NewCall(fn, k) ==
    [fn |-> fn, key |-> k, attempt |-> 0, status |-> "running", result |-> None,
     last_exc |-> FALSE, sleeps |-> 0]

Return(c, data, exc) ==
    [c EXCEPT !.attempt = c.attempt + 1, !.status = "returned", !.result = data,
              !.last_exc = exc]

\* the last attempt's exception is raised again instead of swallowed
OnException_reraise(c) ==
    IF c.attempt < MAX_RETRIES - 1
    THEN [c EXCEPT !.attempt = c.attempt + 1, !.sleeps = c.sleeps + 1, !.last_exc = TRUE]
    ELSE [c EXCEPT !.attempt = c.attempt + 1, !.status = "raised", !.last_exc = TRUE]

\* the except branch of both retry loops: sleep and go round again, or give
\* up with None after the last attempt
OnException(c) ==
    IF c.attempt < MAX_RETRIES - 1
    THEN [c EXCEPT !.attempt = c.attempt + 1, !.sleeps = c.sleeps + 1, !.last_exc = TRUE]
    ELSE Return(c, None, TRUE)

\* one pass of scrape_business's loop
scrape_business(c, p) ==
    LET s == search_by_file_number(p) IN
    IF s.raised THEN OnException(c)
    ELSE IF ~s.found THEN Return(c, None, p.raises # "none")
    ELSE Return(c, extract_business_data(c.key, s.business_name, p), p.xraises)

\* one pass of scrape_business_by_guid's loop
scrape_business_by_guid(c, p) ==
    IF p.raises # "none" THEN OnException(c)
    ELSE IF ~p.title_details THEN Return(c, None, FALSE)
    ELSE Return(c, extract_business_data(c.key, p.name, p), p.xraises)

(***************************************************************************)
(* The checkpoint file.  Its content is the sequence of documents written  *)
(* to it: save_progress opens it with mode 'w' and dumps one JSON object.  *)
(* A document is a JSON value or text that is no JSON.                     *)
(***************************************************************************)
JObject(has_key, vt, v) == [t |-> "object", has_key |-> has_key, vt |-> vt, v |-> v]
JList == [t |-> "list", has_key |-> FALSE, vt |-> "null", v |-> 0]
Garbage == [t |-> "garbage", has_key |-> FALSE, vt |-> "null", v |-> 0]

NoFile == [exists |-> FALSE, readable |-> TRUE, docs |-> <<>>]
FileOf(docs) == [exists |-> TRUE, readable |-> TRUE, docs |-> docs]
Unreadable == [exists |-> TRUE, readable |-> FALSE, docs |-> <<>>]

\* the checkpoint opened with mode 'a'
save_progress_append(file, n) == FileOf(file.docs \o <<JObject(TRUE, "int", n)>>)

\* json.dump({'last_file_number': n, ...}) into a file opened with 'w'
save_progress(file, n) == FileOf(<<JObject(TRUE, "int", n)>>)

\* json.load: exactly one JSON value, or JSONDecodeError
json_load(file) ==
    IF Len(file.docs) = 1 /\ file.docs[1].t # "garbage"
    THEN [ok |-> TRUE, value |-> file.docs[1]]
    ELSE [ok |-> FALSE, value |-> Garbage]

\* load_progress: kind "int" is a number; "other" a value that is no number
\* (data.get returned a string or null); "raise" an exception that is neither
\* JSONDecodeError nor IOError (data is no dict) and leaves the function
load_progress(file, start) ==
    IF ~file.exists THEN [kind |-> "int", v |-> start]
    ELSE IF ~file.readable THEN [kind |-> "int", v |-> start]
    ELSE LET j == json_load(file) IN
         IF ~j.ok THEN [kind |-> "int", v |-> start]
         ELSE IF j.value.t # "object" THEN [kind |-> "raise", v |-> 0]
         ELSE IF ~j.value.has_key THEN [kind |-> "int", v |-> start]
         ELSE IF j.value.vt = "int" THEN [kind |-> "int", v |-> j.value.v]
         ELSE [kind |-> "other", v |-> 0]

(***************************************************************************)
(* The sequential run (MNBusinessScraper.run).                             *)
(***************************************************************************)
NoSink == [exists |-> FALSE, rows |-> <<>>]

\* init_csv: a header-only file unless the file is there
init_csv(file) == IF file.exists THEN file ELSE [exists |-> TRUE, rows |-> <<>>]

\* append_to_csv: one row at the end, mode 'a'
append_to_csv(file, data) == [exists |-> TRUE, rows |-> Append(file.rows, data)]

\* the start position run() computes: ok is FALSE when load_progress or the
\* comparison with start_number raises
start_position(res, file, start) ==
    IF res
    THEN LET saved_progress == load_progress(file, start) IN
         IF saved_progress.kind # "int" THEN [ok |-> FALSE, at |-> start]
         ELSE IF saved_progress.v > start THEN [ok |-> TRUE, at |-> saved_progress.v + 1]
         ELSE [ok |-> TRUE, at |-> start]
    ELSE [ok |-> TRUE, at |-> start]

\* the loop test off by one
loop_condition_le(misses) == misses <= MAX_CONSECUTIVE_MISSES

\* the condition of run()'s while loop
loop_condition(misses) == misses < MAX_CONSECUTIVE_MISSES

\* whether run() checkpoints after this file number
checkpoint_due(file_number) == file_number % CheckpointEvery = 0

\* the checkpoint the process found when it started: its number, or -1
CheckpointOf(file) ==
    IF file.exists /\ file.readable /\ Len(file.docs) = 1
       /\ file.docs[1].t = "object" /\ file.docs[1].has_key /\ file.docs[1].vt = "int"
    THEN file.docs[1].v
    ELSE -1

NewHist(file) ==
    [found |-> file, checkpoint |-> CheckpointOf(file), first |-> 0, probed |-> {},
     trail |-> <<>>, loaded |-> FALSE]

Running == {"init", "loop", "scrape", "delay"}
Ended == {"stopped", "interrupted", "failed", "dead"}

\* run()'s "except Exception": checkpoint, then re-raise
FatalExit ==
    /\ progress_file' = save_progress(progress_file, current_file_number - 1)
    /\ last_saved' = current_file_number - 1
    /\ pc' = "failed"
    /\ call' = NoCall
    /\ UNCHANGED <<start_number, resume, current_file_number, consecutive_misses, runs>>

\* initialize() fails: the browser does not start
InitializeFails ==
    /\ pc = "init"
    /\ FatalExit
    /\ UNCHANGED <<output_file, hist, par, fs, merge, extVars>>

\* initialize, init_csv and the choice of the start position
RunStart ==
    /\ pc = "init"
    /\ LET sp == start_position(resume, progress_file, start_number) IN
       /\ sp.ok
       /\ current_file_number' = sp.at
       /\ output_file' = init_csv(output_file)
       /\ hist' = [hist EXCEPT !.loaded = TRUE]
       /\ pc' = "loop"
    /\ UNCHANGED <<start_number, resume, consecutive_misses, progress_file, call, runs,
                   last_saved, par, fs, merge, extVars>>

\* load_progress, or the comparison of what it returned, raises
RunStartFails ==
    /\ pc = "init"
    /\ ~start_position(resume, progress_file, start_number).ok
    /\ FatalExit
    /\ output_file' = init_csv(output_file)
    /\ hist' = [hist EXCEPT !.loaded = TRUE]
    /\ UNCHANGED <<par, fs, merge, extVars>>

\* the loop test holds: scrape_business is called for the current number
BeginScrape ==
    /\ pc = "loop"
    /\ loop_condition(consecutive_misses)
    /\ call' = NewCall("file", current_file_number)
    /\ hist' = [hist EXCEPT !.probed = @ \cup {current_file_number},
                            !.first = IF @ = 0 THEN current_file_number ELSE @]
    /\ pc' = "scrape"
    /\ UNCHANGED <<start_number, resume, current_file_number, consecutive_misses,
                   progress_file, output_file, runs, last_saved, par, fs, merge, extVars>>

\* one pass of the retry loop of scrape_business
Attempt ==
    /\ pc = "scrape"
    /\ call.status = "running"
    /\ \E p \in PagesFor(call.key) : call' = scrape_business(call, p)
    /\ UNCHANGED <<seqVars, par, fs, merge, extVars>>

\* the rest of the loop body: the row or the miss, the periodic checkpoint,
\* the next file number
RecordResult ==
    /\ pc = "scrape"
    /\ call.status = "returned"
    /\ LET data == call.result
           file_number == current_file_number IN
       /\ output_file' = IF Truthy(data) THEN append_to_csv(output_file, data)
                         ELSE output_file
       /\ consecutive_misses' = IF Truthy(data) THEN 0 ELSE consecutive_misses + 1
       /\ hist' = [hist EXCEPT !.trail = Append(@, IF Truthy(data) THEN "H" ELSE "M")]
       /\ progress_file' = IF checkpoint_due(file_number)
                           THEN save_progress(progress_file, file_number)
                           ELSE progress_file
       /\ last_saved' = IF checkpoint_due(file_number) THEN file_number ELSE last_saved
       /\ current_file_number' = current_file_number + 1
    /\ call' = NoCall
    /\ pc' = "delay"
    /\ UNCHANGED <<start_number, resume, runs, par, fs, merge, extVars>>

\* append_to_csv raises (the disk is full, the file is locked)
AppendFails ==
    /\ pc = "scrape"
    /\ call.status = "returned"
    /\ Truthy(call.result)
    /\ FatalExit
    /\ UNCHANGED <<output_file, hist, par, fs, merge, extVars>>

\* add_delay
AddDelay ==
    /\ pc = "delay"
    /\ pc' = "loop"
    /\ UNCHANGED <<start_number, resume, current_file_number, consecutive_misses,
                   progress_file, output_file, call, hist, runs, last_saved, par, fs, merge, extVars>>

\* the loop test fails: the final checkpoint, and run() returns
Stop ==
    /\ pc = "loop"
    /\ ~loop_condition(consecutive_misses)
    /\ progress_file' = save_progress(progress_file, current_file_number - 1)
    /\ last_saved' = current_file_number - 1
    /\ pc' = "stopped"
    /\ UNCHANGED <<start_number, resume, current_file_number, consecutive_misses,
                   output_file, call, hist, runs, par, fs, merge, extVars>>

\* run()'s "except KeyboardInterrupt"
Interrupt ==
    /\ pc \in Running
    /\ progress_file' = save_progress(progress_file, current_file_number - 1)
    /\ last_saved' = current_file_number - 1
    /\ pc' = "interrupted"
    /\ call' = NoCall
    /\ UNCHANGED <<start_number, resume, current_file_number, consecutive_misses,
                   output_file, hist, runs, par, fs, merge, extVars>>

\* the process is killed: no handler runs
Kill ==
    /\ pc \in Running
    /\ pc' = "dead"
    /\ call' = NoCall
    /\ UNCHANGED <<start_number, resume, current_file_number, consecutive_misses,
                   progress_file, output_file, hist, runs, last_saved, par, fs, merge, extVars>>

\* the operator runs the same command again: a new MNBusinessScraper
Restart ==
    /\ pc \in Ended
    /\ runs < MaxRuns
    /\ runs' = runs + 1
    /\ \E r \in BOOLEAN : resume' = r
    /\ consecutive_misses' = 0
    /\ current_file_number' = start_number
    /\ hist' = NewHist(progress_file)
    /\ call' = NoCall
    /\ pc' = "init"
    /\ UNCHANGED <<start_number, progress_file, output_file, last_saved, par, fs, merge, extVars>>

\* what the checkpoint file may hold when the process first starts
InitialProgressFiles(start) ==
    {NoFile, Unreadable, FileOf(<<>>), FileOf(<<Garbage>>), FileOf(<<JList>>),
     FileOf(<<JObject(FALSE, "null", 0)>>), FileOf(<<JObject(TRUE, "str", 0)>>),
     FileOf(<<JObject(TRUE, "null", 0)>>)}
    \cup {FileOf(<<JObject(TRUE, "int", k)>>) : k \in (start - 1) .. (start + 1)}

NoPar == [mode |-> "none"]
NoWorker == [pc |-> "none"]
NoCoord == [mode |-> "none"]
NoConversion == [fn |-> "none"]
NoRange == [pc |-> "none"]
NoAddress == [pc |-> "none"]
NoFs == [none |-> TRUE]
NoMerge == [op |-> "none", inputs |-> <<>>, frames |-> <<>>, wrote |-> FALSE, result |-> <<>>]

Init ==
    /\ pc = "init"
    /\ start_number \in StartNumbers
    /\ resume \in BOOLEAN
    /\ current_file_number = start_number
    /\ consecutive_misses = 0
    /\ progress_file \in InitialProgressFiles(start_number)
    /\ output_file = NoSink
    /\ call = NoCall
    /\ hist = NewHist(progress_file)
    /\ runs = 1
    /\ last_saved = -1
    /\ rw = NoRange
    /\ ad = NoAddress
    /\ par = NoPar
    /\ fs = NoFs
    /\ merge = NoMerge
    /\ nw = NoWorker
    /\ co = NoCoord
    /\ cv = NoConversion

Next ==
    \/ InitializeFails
    \/ RunStart
    \/ RunStartFails
    \/ BeginScrape
    \/ Attempt
    \/ RecordResult
    \/ AppendFails
    \/ AddDelay
    \/ Stop
    \/ Interrupt
    \/ Kill
    \/ Restart

Spec == Init /\ [][Next]_vars

(***************************************************************************)
(* A long sequential run: every file number up to LastKey is filed, so the *)
(* loop passes more than one periodic checkpoint, and the operator always  *)
(* restarts with --resume.                                                 *)
(***************************************************************************)
LastKey == 20

\* scrape_business returns the record of the current number at its first
\* attempt
ScrapeKey ==
    /\ pc = "loop"
    /\ loop_condition(consecutive_misses)
    /\ current_file_number <= LastKey
    /\ call' = Return(NewCall("file", current_file_number),
                      BusinessRecord(current_file_number, "ACME LLC", "LLC"), FALSE)
    /\ hist' = [hist EXCEPT !.probed = @ \cup {current_file_number},
                            !.first = IF @ = 0 THEN current_file_number ELSE @]
    /\ pc' = "scrape"
    /\ UNCHANGED <<start_number, resume, current_file_number, consecutive_misses,
                   progress_file, output_file, runs, last_saved, par, fs, merge, extVars>>

\* the operator runs the command again with --resume
Resume ==
    /\ Restart
    /\ resume'

InitLong ==
    /\ pc = "init"
    /\ start_number \in StartNumbers
    /\ resume = TRUE
    /\ current_file_number = start_number
    /\ consecutive_misses = 0
    /\ progress_file = NoFile
    /\ output_file = NoSink
    /\ call = NoCall
    /\ hist = NewHist(progress_file)
    /\ runs = 1
    /\ last_saved = -1
    /\ rw = NoRange
    /\ ad = NoAddress
    /\ par = NoPar
    /\ fs = NoFs
    /\ merge = NoMerge
    /\ nw = NoWorker
    /\ co = NoCoord
    /\ cv = NoConversion

NextLong ==
    \/ InitializeFails
    \/ RunStart
    \/ ScrapeKey
    \/ RecordResult
    \/ AppendFails
    \/ AddDelay
    \/ Interrupt
    \/ Kill
    \/ Resume

SpecLong == InitLong /\ [][NextLong]_vars

(***************************************************************************)
(* The scrape unit on its own: scrape_business and scrape_business_by_guid *)
(* called for one key after another, over every page the session can       *)
(* answer with.                                                            *)
(***************************************************************************)
ScrapeCalls ==
    {NewCall("file", k) : k \in FiledNumbers} \cup {NewCall("guid", g) : g \in Guids}

InitScrape ==
    /\ pc = "unit"
    /\ start_number = 1
    /\ resume = FALSE
    /\ current_file_number = 1
    /\ consecutive_misses = 0
    /\ progress_file = NoFile
    /\ output_file = NoSink
    /\ call \in ScrapeCalls
    /\ hist = NewHist(NoFile)
    /\ runs = 1
    /\ last_saved = -1
    /\ rw = NoRange
    /\ ad = NoAddress
    /\ par = NoPar
    /\ fs = NoFs
    /\ merge = NoMerge
    /\ nw = NoWorker
    /\ co = NoCoord
    /\ cv = NoConversion

\* one pass of scrape_business's retry loop
StepFile ==
    /\ call.fn = "file"
    /\ call.status = "running"
    /\ \E p \in Pages : call' = scrape_business(call, p)
    /\ UNCHANGED <<seqVars, par, fs, merge, extVars>>

\* one pass of scrape_business_by_guid's retry loop
StepGuid ==
    /\ call.fn = "guid"
    /\ call.status = "running"
    /\ \E p \in Pages : call' = scrape_business_by_guid(call, p)
    /\ UNCHANGED <<seqVars, par, fs, merge, extVars>>

\* the caller takes the result and scrapes another key
Invoke ==
    /\ call.status = "returned"
    /\ call' \in ScrapeCalls
    /\ UNCHANGED <<seqVars, par, fs, merge, extVars>>

NextScrape == StepFile \/ StepGuid \/ Invoke

\* each pass of a retry loop ends: the waits in it are bounded by the
\* session's timeouts and the fixed RETRY_DELAY
SpecScrape == InitScrape /\ [][NextScrape]_vars /\ WF_vars(StepFile) /\ WF_vars(StepGuid)

(***************************************************************************)
(* The coordinators: run_parallel of mn_scraper_parallel.py splits an      *)
(* integer range, run_parallel of search_by_name_parallel.py the 676       *)
(* two-letter patterns.                                                    *)
(***************************************************************************)
\* the most workers, the highest first file number and the longest range
\* the coordinators are checked with
MaxWorkers == 5
MaxTotalStart == 3
MaxTotalRange == 8

\* string.ascii_lowercase
Letters ==
    <<"a", "b", "c", "d", "e", "f", "g", "h", "i", "j", "k", "l", "m",
      "n", "o", "p", "q", "r", "s", "t", "u", "v", "w", "x", "y", "z">>

\* generate_patterns: 'aa', 'ab', ... 'zz', a pattern being its two letters
generate_patterns ==
    [i \in 1 .. (Len(Letters) * Len(Letters)) |->
        <<Letters[((i - 1) \div Len(Letters)) + 1], Letters[((i - 1) % Len(Letters)) + 1]>>]

\* Python's seq[a:b] for 0 <= a
Slice(seq, a, b) ==
    LET hi == IF b > Len(seq) THEN Len(seq) ELSE b IN
    IF a >= hi THEN <<>> ELSE SubSeq(seq, a + 1, hi)

\* total // num_workers
chunk_size(total, num_workers) == total \div num_workers

\* the last worker's range ends like every other one's
range_end_no_remainder(i, num_workers, start, chunk, total_end) == start + chunk - 1

\* the end of worker i's range (inclusive)
range_end(i, num_workers, start, chunk, total_end) ==
    IF i = num_workers - 1 THEN total_end ELSE start + chunk - 1

\* the (start, end) ranges of mn_scraper_parallel.run_parallel, in worker order
compute_ranges(num_workers, total_start, total_end) ==
    LET total_range == total_end - total_start + 1
        chunk == chunk_size(total_range, num_workers)
    IN  [w \in 1 .. num_workers |->
            LET i == w - 1
                start == total_start + (i * chunk)
            IN  <<start, range_end(i, num_workers, start, chunk, total_end)>>]

\* the pattern lists of search_by_name_parallel.run_parallel, in worker order
compute_worker_patterns(num_workers, patterns) ==
    LET chunk == chunk_size(Len(patterns), num_workers)
    IN  [w \in 1 .. num_workers |->
            LET i == w - 1
                start_idx == i * chunk
                end_idx == IF i = num_workers - 1 THEN Len(patterns) ELSE start_idx + chunk
            IN  Slice(patterns, start_idx, end_idx)]

ParOf(mode, n, ts, te, done, ranges, wp) ==
    [mode |-> mode, num_workers |-> n, total_start |-> ts, total_end |-> te,
     done |-> done, ranges |-> ranges, worker_patterns |-> wp]

InitPart ==
    /\ pc = "coordinator"
    /\ start_number = 1
    /\ resume = FALSE
    /\ current_file_number = 1
    /\ consecutive_misses = 0
    /\ progress_file = NoFile
    /\ output_file = NoSink
    /\ call = NoCall
    /\ hist = NewHist(NoFile)
    /\ runs = 1
    /\ last_saved = -1
    /\ rw = NoRange
    /\ ad = NoAddress
    /\ fs = NoFs
    /\ merge = NoMerge
    /\ nw = NoWorker
    /\ co = NoCoord
    /\ cv = NoConversion
    /\ \E n \in 1 .. MaxWorkers :
          \/ \E ts \in 1 .. MaxTotalStart, m \in 0 .. MaxTotalRange :
                par = ParOf("range", n, ts, ts + m - 1, FALSE, <<>>, <<>>)
          \/ par = ParOf("name", n, 0, 0, FALSE, <<>>, <<>>)

\* mn_scraper_parallel.run_parallel up to the launch of the workers
RunParallelRange ==
    /\ par.mode = "range"
    /\ ~par.done
    /\ par' = [par EXCEPT !.done = TRUE,
                          !.ranges = compute_ranges(par.num_workers, par.total_start,
                                                    par.total_end)]
    /\ UNCHANGED <<seqVars, call, fs, merge, extVars>>

\* search_by_name_parallel.run_parallel up to the launch of the workers
RunParallelName ==
    /\ par.mode = "name"
    /\ ~par.done
    /\ par' = [par EXCEPT !.done = TRUE,
                          !.worker_patterns =
                              compute_worker_patterns(par.num_workers, generate_patterns)]
    /\ UNCHANGED <<seqVars, call, fs, merge, extVars>>

NextPart == RunParallelRange \/ RunParallelName

SpecPart == InitPart /\ [][NextPart]_vars

(***************************************************************************)
(* Properties of the coordinators (checked under SpecPart).                *)
(***************************************************************************)
\* the keys a to b in order (none when b < a)
Interval(a, b) == [i \in 1 .. (IF b < a THEN 0 ELSE b - a + 1) |-> a + i - 1]

RECURSIVE Concat(_)
\* the sequences of a sequence joined in order
Concat(seqs) ==
    IF seqs = <<>> THEN <<>>
    ELSE Concat(SubSeq(seqs, 1, Len(seqs) - 1)) \o seqs[Len(seqs)]

\* C2: the partitions, joined in worker order, are the ordered key set (so
\* they are contiguous, disjoint and leave no gap), every partition but the
\* last holds M div N keys and the last holds the remainder as well.
C2_PartitionCoverage ==
    par.done =>
        LET n == par.num_workers IN
        IF par.mode = "range"
        THEN LET m == par.total_end - par.total_start + 1
                 parts == [w \in 1 .. n |-> Interval(par.ranges[w][1], par.ranges[w][2])]
             IN  /\ Len(par.ranges) = n
                 /\ Concat(parts) = Interval(par.total_start, par.total_end)
                 /\ \A w \in 1 .. (n - 1) : Len(parts[w]) = m \div n
                 /\ Len(parts[n]) = (m \div n) + (m % n)
        ELSE LET m == Len(generate_patterns)
                 parts == par.worker_patterns
             IN  /\ Len(parts) = n
                 /\ m = 676
                 /\ Concat(parts) = generate_patterns
                 /\ \A w \in 1 .. (n - 1) : Len(parts[w]) = m \div n
                 /\ Len(parts[n]) = (m \div n) + (m % n)

\* a range that does not divide evenly among several workers
C2_Witness ==
    /\ par.done
    /\ par.mode = "range"
    /\ par.num_workers > 1
    /\ (par.total_end - par.total_start + 1) % par.num_workers # 0
    /\ par.ranges[par.num_workers][2] = par.total_end

(***************************************************************************)
(* Consolidation.  fs maps a file to its content: the worker sinks         *)
(* output/businesses_alpha_worker_<id>.csv ("alpha") and                   *)
(* output/businesses_worker_<id>.csv ("range"), output/businesses.csv      *)
(* ("main"), output/businesses_all.csv ("all"),                            *)
(* output/businesses_merged.csv ("merged") and data/businesses.csv         *)
(* ("data").  A file that cannot be parsed has readable = FALSE.           *)
(***************************************************************************)
\* run_auto_save looks for the sinks of workers 0 .. 19
AutoSaveWorkers == 20

WorkerIds == {0, 1}

F(kind, id) == [kind |-> kind, id |-> id]

\* a run with one worker more than run_auto_save looks for
ManyWorkers == AutoSaveWorkers + 1

\* the worker ids whose sinks the file system may hold
SinkIds == WorkerIds \cup {ManyWorkers - 1}

AlphaSinks == {F("alpha", w) : w \in SinkIds}
RangeSinks == {F("range", w) : w \in WorkerIds}
MainFile == F("main", 0)
AllFile == F("all", 0)
MergedFile == F("merged", 0)
DataFile == F("data", 0)
FileNames == AlphaSinks \cup RangeSinks \cup {MainFile, AllFile, MergedFile, DataFile}

Csv(rows) == [exists |-> TRUE, readable |-> TRUE, rows |-> rows]
NoCsv == [exists |-> FALSE, readable |-> TRUE, rows |-> <<>>]

Row(k, n) == BusinessRecord(k, n, "LLC")

\* the file numbers that the rows of the range workers may carry
FileNumbers == {42, 43}

\* the file_number column of a name worker's row is a GUID, a string; that of a
\* range worker's row is a number
IsString(file_number) == file_number \in Guids

\* what the sink of a name worker may hold when a consolidation runs
AlphaContents ==
    {NoCsv, Csv(<<Row(101, "A")>>), Csv(<<Row(102, "B"), Row(101, "B")>>)}

\* what the sink of a range worker may hold when a consolidation runs
RangeContents ==
    {NoCsv, Csv(<<Row(42, "A")>>), Csv(<<Row(43, "B"), Row(42, "B")>>)}

\* what the sequential sink and the earlier consolidated files may hold
MainContents == {NoCsv, Csv(<<Row(42, "C")>>)}
AllContents == {NoCsv, Csv(<<Row(42, "E"), Row(43, "E")>>), Csv(<<Row(101, "E")>>)}
DataContents == {NoCsv, Csv(<<Row(102, "C"), Row(101, "D"), Row(102, "D"), Row(42, "D")>>)}

RECURSIVE At(_, _, _)
\* the rows of a sequence whose index is in idx, in order, from index i on
At(rows, idx, i) ==
    IF i > Len(rows) THEN <<>>
    ELSE (IF i \in idx THEN <<rows[i]>> ELSE <<>>) \o At(rows, idx, i + 1)

\* duplicates are whole rows, not rows of one file_number
drop_duplicates_rows(rows) ==
    At(rows, {i \in 1 .. Len(rows) : \A j \in (i + 1) .. Len(rows) : rows[j] # rows[i]}, 1)

\* drop_duplicates(subset=['file_number'], keep='last')
drop_duplicates_last(rows) ==
    At(rows, {i \in 1 .. Len(rows) :
                 \A j \in (i + 1) .. Len(rows) : rows[j].file_number # rows[i].file_number}, 1)

\* drop_duplicates(subset=['file_number'], keep='first')
drop_duplicates_first(rows) ==
    At(rows, {i \in 1 .. Len(rows) :
                 \A j \in 1 .. (i - 1) : rows[j].file_number # rows[i].file_number}, 1)

\* a column of strings and numbers cannot be ordered: sort_values raises
sort_raises(rows) ==
    \E i, j \in 1 .. Len(rows) : IsString(rows[i].file_number) /\ ~IsString(rows[j].file_number)

RECURSIVE sort_values(_)
\* sort_values('file_number'), of rows whose file numbers differ
sort_values(rows) ==
    IF rows = <<>> THEN <<>>
    ELSE LET m == CHOOSE i \in 1 .. Len(rows) :
                      \A j \in 1 .. Len(rows) : rows[i].file_number <= rows[j].file_number
         IN  <<rows[m]>> \o sort_values(At(rows, (1 .. Len(rows)) \ {m}, 1))

RECURSIVE Orders(_)
\* the orders in which a glob may list the files of a set
Orders(S) ==
    IF S = {} THEN {<<>>}
    ELSE UNION {{<<f>> \o o : o \in Orders(S \ {f})} : f \in S}

\* the files of a sequence that are there, in order
Existing(files, names) == SelectSeq(names, LAMBDA f : files[f].exists)

\* pd.read_csv of each file in turn inside try/except: the files that parse
ReadAll(files, names) == SelectSeq(names, LAMBDA f : files[f].readable)

RECURSIVE RowsOf(_, _)
\* pd.concat of the frames read from a sequence of files
RowsOf(files, names) ==
    IF names = <<>> THEN <<>>
    ELSE RowsOf(files, SubSeq(names, 1, Len(names) - 1)) \o files[names[Len(names)]].rows

\* the sinks run_auto_save looks for, in the order of its loop
AutoSaveSinks ==
    LET ids == {w \in SinkIds : w < AutoSaveWorkers}
        o == CHOOSE o \in Orders(ids) : \A i, j \in 1 .. Cardinality(ids) : i < j => o[i] < o[j]
    IN  [i \in 1 .. Cardinality(ids) |-> F("alpha", o[i])]

\* sorted(glob('businesses_worker_*.csv'))
SortedRangeSinks ==
    LET o == CHOOSE o \in Orders(WorkerIds) :
                 \A i, j \in 1 .. Cardinality(WorkerIds) : i < j => o[i] < o[j]
    IN  [i \in 1 .. Cardinality(WorkerIds) |-> F("range", o[i])]

\* what a consolidation did: the files it read in the order it merged them,
\* and the rows it wrote (wrote = FALSE: it returned without writing)
Merged(op, files, inputs, wrote, result) ==
    [op |-> op, inputs |-> inputs, frames |-> [i \in 1 .. Len(inputs) |-> files[inputs[i]].rows],
     wrote |-> wrote, result |-> result]

\* run_auto_save: [sources, wrote, rows]
run_auto_save(files) ==
    LET dfs == ReadAll(files, Existing(files, AutoSaveSinks))
        merged == drop_duplicates_last(RowsOf(files, dfs))
        existing == files[DataFile]
    IN  IF dfs = <<>> THEN Merged("run_auto_save", files, <<>>, FALSE, <<>>)
        ELSE IF existing.exists /\ existing.readable
        THEN Merged("run_auto_save", files, <<DataFile>> \o dfs, TRUE,
                    drop_duplicates_last(existing.rows \o merged))
        ELSE Merged("run_auto_save", files, dfs, TRUE, merged)

\* merge_csv_files over the files the two globs list in the orders oa and or:
\* the frames read, and the merged frame (none when nothing could be read)
merge_csv_files(files, oa, or) ==
    LET all_files == oa \o or
        dfs == ReadAll(files, all_files)
    IN  [sources |-> dfs, none |-> dfs = <<>>,
         rows |-> drop_duplicates_last(RowsOf(files, dfs))]

\* run_export, up to export_csv
run_export(files, oa, or) ==
    LET df == merge_csv_files(files, oa, or)
        mains == ReadAll(files, Existing(files, <<MainFile, AllFile>>))
        none == df.none /\ mains = <<>>
        rows == df.rows \o RowsOf(files, mains)
    IN  IF none \/ rows = <<>> THEN Merged("run_export", files, df.sources \o mains, FALSE, <<>>)
        ELSE Merged("run_export", files, df.sources \o mains, TRUE, drop_duplicates_last(rows))

\* merge_worker_outputs
merge_worker_outputs(files) ==
    LET worker_files == Existing(files, SortedRangeSinks)
        dfs == ReadAll(files, worker_files)
        combined == drop_duplicates_first(RowsOf(files, dfs))
    IN  IF worker_files = <<>> \/ dfs = <<>> \/ sort_raises(combined)
        THEN Merged("merge_worker_outputs", files, dfs, FALSE, <<>>)
        ELSE Merged("merge_worker_outputs", files, dfs, TRUE, sort_values(combined))

\* merge_all over the files its glob lists in the order o
merge_all(files, o) ==
    LET dfs == ReadAll(files, o)
        combined == drop_duplicates_first(RowsOf(files, dfs))
    IN  IF dfs = <<>> \/ sort_raises(combined) THEN Merged("merge_all", files, dfs, FALSE, <<>>)
        ELSE Merged("merge_all", files, dfs, TRUE, sort_values(combined))

\* the files a glob over a set of names lists
Glob(files, names) == {f \in names : files[f].exists}

\* to_csv
Write(files, f, m) == IF m.wrote THEN [files EXCEPT ![f] = Csv(m.result)] ELSE files

consVars ==
    <<start_number, resume, current_file_number, consecutive_misses, progress_file,
      output_file, hist, runs, last_saved>>

\* one invocation of a consolidation script, over the files that the workers
\* and the earlier consolidations left
InitMerge ==
    /\ pc = "consolidator"
    /\ start_number = 1
    /\ resume = FALSE
    /\ current_file_number = 1
    /\ consecutive_misses = 0
    /\ progress_file = NoFile
    /\ output_file = NoSink
    /\ call = NoCall
    /\ hist = NewHist(NoFile)
    /\ runs = 1
    /\ last_saved = -1
    /\ rw = NoRange
    /\ ad = NoAddress
    /\ par = NoPar
    /\ merge = NoMerge
    /\ nw = NoWorker
    /\ co = NoCoord
    /\ cv = NoConversion
    /\ \E alpha \in [{F("alpha", w) : w \in WorkerIds} -> AlphaContents],
          range \in [RangeSinks -> RangeContents],
          main \in MainContents, all \in AllContents, data \in DataContents,
          bad \in {MergedFile, F("alpha", 0), F("range", 1), DataFile} :
          fs = [f \in FileNames |->
                  LET c == IF f \in DOMAIN alpha THEN alpha[f]
                           ELSE IF f \in RangeSinks THEN range[f]
                           ELSE IF f = MainFile THEN main
                           ELSE IF f = AllFile THEN all
                           ELSE IF f = DataFile THEN data
                           ELSE NoCsv
                  IN  IF f = bad /\ c.exists THEN [c EXCEPT !.readable = FALSE] ELSE c]

RunAutoSave ==
    /\ pc = "consolidator"
    /\ pc' = "consolidated"
    /\ LET m == run_auto_save(fs) IN
       /\ merge' = m
       /\ fs' = Write(fs, DataFile, m)
    /\ UNCHANGED <<consVars, call, par, extVars>>

RunExport ==
    /\ pc = "consolidator"
    /\ pc' = "consolidated"
    /\ \E oa \in Orders(Glob(fs, AlphaSinks)), or \in Orders(Glob(fs, RangeSinks)) :
          LET m == run_export(fs, oa, or) IN
          /\ merge' = m
          /\ fs' = Write(fs, DataFile, m)
    /\ UNCHANGED <<consVars, call, par, extVars>>

MergeWorkerOutputs ==
    /\ pc = "consolidator"
    /\ pc' = "consolidated"
    /\ LET m == merge_worker_outputs(fs) IN
       /\ merge' = m
       /\ fs' = Write(fs, MergedFile, m)
    /\ UNCHANGED <<consVars, call, par, extVars>>

MergeAll ==
    /\ pc = "consolidator"
    /\ pc' = "consolidated"
    /\ \E o \in Orders(Glob(fs, AlphaSinks \cup RangeSinks \cup {MainFile, AllFile})) :
          LET m == merge_all(fs, o) IN
          /\ merge' = m
          /\ fs' = Write(fs, AllFile, m)
    /\ UNCHANGED <<consVars, call, par, extVars>>

NextMerge == RunAutoSave \/ RunExport \/ MergeWorkerOutputs \/ MergeAll

SpecMerge == InitMerge /\ [][NextMerge]_vars

\* what the sink of a name worker of a run of any size may hold
SinkContents == AlphaContents \cup {Csv(<<Row(103, "Z")>>)}

\* one consolidation of a name-mode run started with num_workers workers:
\* worker i (0 <= i < num_workers) may have left its sink
InitSinks ==
    /\ pc = "consolidator"
    /\ start_number = 1
    /\ resume = FALSE
    /\ current_file_number = 1
    /\ consecutive_misses = 0
    /\ progress_file = NoFile
    /\ output_file = NoSink
    /\ call = NoCall
    /\ hist = NewHist(NoFile)
    /\ runs = 1
    /\ last_saved = -1
    /\ rw = NoRange
    /\ ad = NoAddress
    /\ par = NoPar
    /\ merge = NoMerge
    /\ nw = NoWorker
    /\ co = NoCoord
    /\ cv = NoConversion
    /\ \E num_workers \in {1, 2, ManyWorkers}, alpha \in [AlphaSinks -> SinkContents],
          data \in DataContents, bad \in {MergedFile, F("alpha", 0), DataFile} :
          fs = [f \in FileNames |->
                  LET c == IF f \in AlphaSinks /\ f.id < num_workers THEN alpha[f]
                           ELSE IF f = DataFile THEN data
                           ELSE NoCsv
                  IN  IF f = bad /\ c.exists THEN [c EXCEPT !.readable = FALSE] ELSE c]

NextSinks == RunAutoSave \/ RunExport

SpecSinks == InitSinks /\ [][NextSinks]_vars

(***************************************************************************)
(* The name-mode worker (worker_scrape of search_by_name_parallel.py): one *)
(* worker with its partition of patterns, its sink                         *)
(* output/businesses_alpha_worker_<id>.csv and its checkpoint              *)
(* progress_alpha_worker_<id>.json, over kills and restarts.  A string     *)
(* that the code slices is a sequence of characters.                       *)
(***************************************************************************)
\* the default of the module; main() replaces it by the --years argument
TARGET_YEARS == {<<"2", "0", "2", "3">>}

TARGET_BUSINESS_TYPES ==
    {"Limited Liability Company (Domestic)", "Limited Liability Company (Foreign)",
     "Business Corporation (Domestic)", "Business Corporation (Foreign)",
     "Nonprofit Corporation (Domestic)", "Nonprofit Corporation (Foreign)"}

\* the processed_guids a checkpoint keeps (10,000 in the code), scaled down
GuidCap == 2

\* detail fetches of one worker over all its runs
MaxFetches == 4

\* the patterns of the worker: 'aa' and 'ab'
WorkerPatterns == SubSeq(generate_patterns, 1, 2)

\* what a detail view shows for a locator: a target type filed in a target
\* year, another type filed in a target year, a target type filed earlier
DetailOf(guid) ==
    IF guid = 101
    THEN [none |-> FALSE, file_number |-> guid,
          business_type |-> "Limited Liability Company (Domestic)",
          filing_date |-> <<"2", "0", "2", "3", "-", "0", "1", "-", "1", "5">>]
    ELSE IF guid = 102
    THEN [none |-> FALSE, file_number |-> guid, business_type |-> "Assumed Name",
          filing_date |-> <<"2", "0", "2", "3", "-", "0", "6", "-", "0", "1">>]
    ELSE [none |-> FALSE, file_number |-> guid,
          business_type |-> "Limited Liability Company (Foreign)",
          filing_date |-> <<"2", "0", "1", "9", "-", "0", "6", "-", "0", "1">>]

NoDetail == [none |-> TRUE, file_number |-> 0, business_type |-> "", filing_date |-> <<>>]

\* what scrape_business_by_guid may return for a locator
DetailOutcomes(guid) == {NoDetail, DetailOf(guid)}

\* the result lists search_by_name may return: the locators of the rows of the
\* result table, in order (a filing may be listed under more than one name)
ResultLists ==
    {<<>>} \cup {<<g>> : g \in Guids} \cup {<<g, h>> : g \in Guids, h \in Guids}

\* filing_date[:4] if filing_date else ''
filing_year(data) == Slice(data.filing_date, 0, 4)

\* the filter of worker_scrape: what is saved to the sink
matches_criteria(data) ==
    filing_year(data) \in TARGET_YEARS /\ data.business_type \in TARGET_BUSINESS_TYPES

\* the type is not looked at
matches_criteria_year_only(data) == filing_year(data) \in TARGET_YEARS

\* the filter, as a definition the worker calls
saved_to_sink(data) == matches_criteria(data)

\* list(processed_guids)[-10000:]: the last GuidCap elements of a list whose
\* order is that of a Python set
truncated_guids(guids) ==
    IF Cardinality(guids) <= GuidCap THEN {guids}
    ELSE {g \in SUBSET guids : Cardinality(g) = GuidCap}

\* the list is written whole
truncated_guids_none(guids) == {guids}

\* the processed_guids written to the checkpoint
checkpoint_guids(guids) == truncated_guids(guids)

NoCheckpoint ==
    [exists |-> FALSE, readable |-> TRUE, completed_patterns |-> {}, processed_guids |-> {}]

\* json.dump of the checkpoint into a file opened with 'w'
Checkpoint(completed, guids) ==
    [exists |-> TRUE, readable |-> TRUE, completed_patterns |-> completed,
     processed_guids |-> guids]

\* the progress block of worker_scrape: what it takes from the checkpoint
load_checkpoint(file) ==
    IF file.exists /\ file.readable
    THEN [completed_patterns |-> file.completed_patterns,
          processed_guids |-> file.processed_guids]
    ELSE [completed_patterns |-> {}, processed_guids |-> {}]

\* the file_number column of the sink, when the sink is there and parses
sink_guids(file, parses) ==
    IF file.exists /\ parses THEN {file.rows[i].file_number : i \in 1 .. Len(file.rows)}
    ELSE {}

\* the sink is not read at startup
sink_guids_ignored(file, parses) == {}

\* the locators worker_scrape takes from its sink at startup
reloaded_guids(file, parses) == sink_guids(file, parses)

\* [p for p in patterns if p not in completed_patterns]
remaining_patterns(patterns, completed) == SelectSeq(patterns, LAMBDA p : p \notin completed)

\* every pattern is searched again
remaining_patterns_all(patterns, completed) == patterns

\* the patterns the worker still has to search
patterns_to_search(patterns, completed) == remaining_patterns(patterns, completed)

\* [r for r in results if r['guid'] not in processed_guids]
new_results(results, guids) == SelectSeq(results, LAMBDA g : g \notin guids)

WorkerRunning == {"start", "next", "fetch"}
WorkerEnded == {"done", "dead"}

\* h: what happened in the current run (searched: patterns searched; loaded:
\* completed_patterns of the checkpoint found at startup; attempts: key
\* attempts made; delayed: a politeness delay has elapsed since the last key
\* attempt; hasty: the attempts that began without one, as <<earlier, later>>;
\* unsaved: a pattern ended without a checkpoint write)
NewWorkerHist ==
    [searched |-> {}, loaded |-> {}, attempts |-> 0, delayed |-> TRUE, last |-> "none",
     hasty |-> {}, unsaved |-> FALSE, worked |-> FALSE, failed |-> {}]

\* a key attempt of kind k begins
Attempted(h, k) ==
    [h EXCEPT !.attempts = @ + 1, !.delayed = FALSE, !.last = k, !.worked = TRUE,
              !.hasty = IF h.attempts > 0 /\ ~h.delayed THEN @ \cup {<<h.last, k>>} ELSE @]

\* asyncio.sleep between key attempts
Slept(h) == [h EXCEPT !.delayed = TRUE]

InitWorker ==
    /\ pc = "worker"
    /\ start_number = 1
    /\ resume = FALSE
    /\ current_file_number = 1
    /\ consecutive_misses = 0
    /\ progress_file = NoFile
    /\ output_file = NoSink
    /\ call = NoCall
    /\ hist = NewHist(NoFile)
    /\ runs = 1
    /\ last_saved = -1
    /\ rw = NoRange
    /\ ad = NoAddress
    /\ par = NoPar
    /\ fs = NoFs
    /\ merge = NoMerge
    /\ co = NoCoord
    /\ cv = NoConversion
    /\ nw = [pc |-> "start", patterns |-> WorkerPatterns, completed_patterns |-> {},
             processed_guids |-> {}, remaining |-> <<>>, todo |-> <<>>,
             output_file |-> NoSink, progress_file |-> NoCheckpoint,
             runs |-> 1, fetches |-> 0, h |-> NewWorkerHist]

\* worker_scrape up to its loop: the checkpoint, the sink, the remaining
\* patterns, and the early return when none remains
WorkerStart ==
    /\ nw.pc = "start"
    /\ \E parses \in BOOLEAN :
          LET progress == load_checkpoint(nw.progress_file)
              guids == progress.processed_guids \cup reloaded_guids(nw.output_file, parses)
              remaining == patterns_to_search(nw.patterns, progress.completed_patterns)
          IN  nw' = [nw EXCEPT !.completed_patterns = progress.completed_patterns,
                               !.processed_guids = guids,
                               !.remaining = remaining,
                               !.h.loaded = progress.completed_patterns,
                               !.pc = IF remaining = <<>> THEN "done" ELSE "next"]
    /\ UNCHANGED <<seqVars, call, par, fs, merge, co, cv, rw, ad>>

\* search_by_name for the next remaining pattern, and the filter of its
\* results.  search_by_name catches its exceptions and returns no result;
\* when the result page loads it waits 1.5 s before it reads the table
SearchPattern ==
    /\ nw.pc = "next"
    /\ nw.remaining # <<>>
    /\ \E loaded \in BOOLEAN, results \in ResultLists :
          /\ ~loaded => results = <<>>
          /\ LET h == [Attempted(nw.h, "search") EXCEPT
                           !.searched = @ \cup {Head(nw.remaining)},
                           !.failed = IF loaded THEN @ ELSE @ \cup {Head(nw.remaining)}]
             IN  nw' = [nw EXCEPT !.todo = new_results(results, nw.processed_guids),
                                  !.h = IF loaded THEN Slept(h) ELSE h,
                                  !.pc = "fetch"]
    /\ UNCHANGED <<seqVars, call, par, fs, merge, co, cv, rw, ad>>

\* one pass of the loop over new_results: the detail fetch, the row when the
\* record matches, the locator remembered, the small delay
FetchDetail ==
    /\ nw.pc = "fetch"
    /\ nw.todo # <<>>
    /\ nw.fetches < MaxFetches
    /\ LET guid == Head(nw.todo) IN
       \E data \in DetailOutcomes(guid) :
          nw' = [nw EXCEPT !.todo = Tail(nw.todo),
                           !.fetches = @ + 1,
                           !.output_file =
                               IF Truthy(data) /\ saved_to_sink(data)
                               THEN append_to_csv(nw.output_file, data) ELSE @,
                           !.processed_guids = IF Truthy(data) THEN @ \cup {guid} ELSE @,
                           !.h = Slept(Attempted(nw.h, "fetch"))]
    /\ UNCHANGED <<seqVars, call, par, fs, merge, co, cv, rw, ad>>

\* the pass raises after the fetch (the row cannot be written): the except
\* branch logs and goes on with the next result
FetchRaises ==
    /\ nw.pc = "fetch"
    /\ nw.todo # <<>>
    /\ nw.fetches < MaxFetches
    /\ LET data == DetailOf(Head(nw.todo)) IN
       /\ saved_to_sink(data)
       /\ nw' = [nw EXCEPT !.todo = Tail(nw.todo),
                           !.fetches = @ + 1,
                           !.h = Attempted(nw.h, "fetch")]
    /\ UNCHANGED <<seqVars, call, par, fs, merge, co, cv, rw, ad>>

\* the end of a pattern: it is completed, the checkpoint is written, the
\* delay between patterns
SavePattern ==
    /\ nw.pc = "fetch"
    /\ nw.todo = <<>>
    /\ LET completed == nw.completed_patterns \cup {Head(nw.remaining)} IN
       \E guids \in checkpoint_guids(nw.processed_guids) :
          nw' = [nw EXCEPT !.completed_patterns = completed,
                           !.progress_file = Checkpoint(completed, guids),
                           !.remaining = Tail(nw.remaining),
                           !.h = Slept(nw.h),
                           !.pc = "next"]
    /\ UNCHANGED <<seqVars, call, par, fs, merge, co, cv, rw, ad>>

\* the checkpoint cannot be written: the outer except logs the fatal error
\* and the worker returns
SavePatternRaises ==
    /\ nw.pc = "fetch"
    /\ nw.todo = <<>>
    /\ nw' = [nw EXCEPT !.completed_patterns = @ \cup {Head(nw.remaining)},
                        !.h.unsaved = TRUE,
                        !.pc = "done"]
    /\ UNCHANGED <<seqVars, call, par, fs, merge, co, cv, rw, ad>>

\* the loop has no pattern left: the worker returns
WorkerFinish ==
    /\ nw.pc = "next"
    /\ nw.remaining = <<>>
    /\ nw' = [nw EXCEPT !.pc = "done"]
    /\ UNCHANGED <<seqVars, call, par, fs, merge, co, cv, rw, ad>>

\* the process is killed while it writes the checkpoint: the file is cut short
WorkerKilledSaving ==
    /\ nw.pc = "fetch"
    /\ nw.todo = <<>>
    /\ nw' = [nw EXCEPT !.progress_file = [NoCheckpoint EXCEPT !.exists = TRUE,
                                                               !.readable = FALSE],
                        !.pc = "dead"]
    /\ UNCHANGED <<seqVars, call, par, fs, merge, co, cv, rw, ad>>

\* the process is killed
WorkerKill ==
    /\ nw.pc \in WorkerRunning
    /\ nw' = [nw EXCEPT !.pc = "dead"]
    /\ UNCHANGED <<seqVars, call, par, fs, merge, co, cv, rw, ad>>

\* the same command is run again: worker_scrape starts with empty sets
WorkerRestart ==
    /\ nw.pc \in WorkerEnded
    /\ nw.runs < MaxRuns
    /\ nw' = [nw EXCEPT !.pc = "start", !.runs = @ + 1, !.completed_patterns = {},
                        !.processed_guids = {}, !.remaining = <<>>, !.todo = <<>>,
                        !.h = NewWorkerHist]
    /\ UNCHANGED <<seqVars, call, par, fs, merge, co, cv, rw, ad>>

NextWorker ==
    \/ WorkerStart
    \/ SearchPattern
    \/ FetchDetail
    \/ FetchRaises
    \/ SavePattern
    \/ SavePatternRaises
    \/ WorkerFinish
    \/ WorkerKilledSaving
    \/ WorkerKill
    \/ WorkerRestart

SpecWorker == InitWorker /\ [][NextWorker]_vars

(***************************************************************************)
(* A coordinator with its workers (run_parallel of mn_scraper_parallel.py  *)
(* and of search_by_name_parallel.py): the worker tasks run interleaved,   *)
(* any of them may end in a fatal exception, the coordinator gathers them, *)
(* and consolidations run beside them.  co.writes holds, for every file    *)
(* written, who wrote it.                                                  *)
(***************************************************************************)
\* the workers of the run, and the keys of a worker's partition
CoordWorkerIds == {0, 1, 2}
MaxKeys == 2

\* output/businesses_alpha_worker_<id>.csv or output/businesses_worker_<id>.csv
sink_path(mode, worker_id) == F(IF mode = "name" THEN "alpha" ELSE "range", worker_id)

\* one sink for all workers
sink_path_shared(mode, worker_id) == F(IF mode = "name" THEN "alpha" ELSE "range", 0)

\* the sink a worker appends to
worker_sink(mode, worker_id) == sink_path(mode, worker_id)

\* progress_alpha_worker_<id>.json or progress_worker_<id>.json
progress_path(mode, worker_id) ==
    F(IF mode = "name" THEN "progress_alpha" ELSE "progress", worker_id)

\* the file each consolidation routine writes
consolidated_path(op) ==
    IF op \in {"run_auto_save", "run_export"} THEN DataFile
    ELSE IF op = "merge_worker_outputs" THEN MergedFile
    ELSE AllFile

Worker(worker_id) == [kind |-> "worker", id |-> worker_id]
Consolidator == [kind |-> "consolidator", id |-> 0]

\* asyncio.gather(*tasks, return_exceptions=True): the exceptions of the
\* tasks are results
gather(tasks) == "results"

\* asyncio.gather(*tasks): the first exception is raised in the coordinator
gather_raises(tasks) ==
    IF \E w \in DOMAIN tasks : tasks[w].status = "raised" THEN "raise" ELSE "results"

\* what the coordinator's await of the gathered tasks yields
gathered(tasks) == gather(tasks)

InitCoord ==
    /\ pc = "coordinator"
    /\ start_number = 1
    /\ resume = FALSE
    /\ current_file_number = 1
    /\ consecutive_misses = 0
    /\ progress_file = NoFile
    /\ output_file = NoSink
    /\ call = NoCall
    /\ hist = NewHist(NoFile)
    /\ runs = 1
    /\ last_saved = -1
    /\ rw = NoRange
    /\ ad = NoAddress
    /\ par = NoPar
    /\ fs = NoFs
    /\ merge = NoMerge
    /\ nw = NoWorker
    /\ cv = NoConversion
    /\ \E mode \in {"range", "name"}, left \in [CoordWorkerIds -> 0 .. MaxKeys] :
          co = [mode |-> mode,
                tasks |-> [w \in CoordWorkerIds |->
                              [status |-> "running", left |-> left[w], fatal |-> FALSE]],
                state |-> "gathering", final_saved |-> FALSE, writes |-> {}]

\* worker w handles the next key of its partition: the row, the checkpoint
CoordWorkerStep(w) ==
    /\ co.state = "gathering"
    /\ co.tasks[w].status = "running"
    /\ co.tasks[w].left > 0
    /\ co' = [co EXCEPT !.tasks[w].left = @ - 1,
                        !.writes = @ \cup {<<worker_sink(co.mode, w), Worker(w)>>,
                                           <<progress_path(co.mode, w), Worker(w)>>}]
    /\ UNCHANGED <<seqVars, call, par, fs, merge, nw, cv, rw, ad>>

\* worker w has no key left and returns its count
CoordWorkerReturns(w) ==
    /\ co.state = "gathering"
    /\ co.tasks[w].status = "running"
    /\ co.tasks[w].left = 0
    /\ co' = [co EXCEPT !.tasks[w].status = "returned"]
    /\ UNCHANGED <<seqVars, call, par, fs, merge, nw, cv, rw, ad>>

\* a fatal exception in worker w: it leaves the task (scrape_range, and
\* worker_scrape before its try), or worker_scrape's outer except logs it and
\* the worker returns what it has found
CoordWorkerFatal(w) ==
    /\ co.state = "gathering"
    /\ co.tasks[w].status = "running"
    /\ \E caught \in {c \in BOOLEAN : c => co.mode = "name"} :
          co' = [co EXCEPT !.tasks[w].status = IF caught THEN "returned" ELSE "raised",
                           !.tasks[w].fatal = TRUE]
    /\ UNCHANGED <<seqVars, call, par, fs, merge, nw, cv, rw, ad>>

\* auto_save_task wakes up while the workers run (name mode), or a
\* consolidation script is run beside them
CoordConsolidate ==
    /\ co.state = "gathering"
    /\ \E op \in {"run_auto_save", "run_export", "merge_worker_outputs", "merge_all"} :
          /\ op = "run_auto_save" => co.mode = "name"
          /\ co' = [co EXCEPT !.writes = @ \cup {<<consolidated_path(op), Consolidator>>}]
    /\ UNCHANGED <<seqVars, call, par, fs, merge, nw, cv, rw, ad>>

\* every task has ended: the await returns (or raises), and in name mode the
\* finally block runs the final run_auto_save
CoordGather ==
    /\ co.state = "gathering"
    /\ \A w \in CoordWorkerIds : co.tasks[w].status # "running"
    /\ co' = [co EXCEPT !.state = IF gathered(co.tasks) = "results" THEN "gathered"
                                  ELSE "raised",
                        !.final_saved = (co.mode = "name"),
                        !.writes = IF co.mode = "name"
                                   THEN @ \cup {<<consolidated_path("run_auto_save"),
                                                  Consolidator>>}
                                   ELSE @]
    /\ UNCHANGED <<seqVars, call, par, fs, merge, nw, cv, rw, ad>>

\* the summary of the results
CoordSummary ==
    /\ co.state = "gathered"
    /\ co' = [co EXCEPT !.state = "summary"]
    /\ UNCHANGED <<seqVars, call, par, fs, merge, nw, cv, rw, ad>>

NextCoord ==
    \/ \E w \in CoordWorkerIds : CoordWorkerStep(w)
    \/ \E w \in CoordWorkerIds : CoordWorkerReturns(w)
    \/ \E w \in CoordWorkerIds : CoordWorkerFatal(w)
    \/ CoordConsolidate
    \/ CoordGather
    \/ CoordSummary

\* the event loop runs every task that can run, and the coordinator when the
\* tasks have ended
SpecCoord ==
    /\ InitCoord
    /\ [][NextCoord]_vars
    /\ \A w \in CoordWorkerIds : WF_vars(CoordWorkerStep(w) \/ CoordWorkerReturns(w))
    /\ WF_vars(CoordGather)
    /\ WF_vars(CoordSummary)

(***************************************************************************)
(* The scraping process of search_by_name_parallel.py as the tasks of one  *)
(* event loop: the name-mode workers, auto_save_task and run_parallel.     *)
(* One thread runs the loop, so a task runs from one await to the next     *)
(* and the loop resumes another task only when the running one awaits or   *)
(* ends.  A row append and a checkpoint write are two steps each, the      *)
(* file cut short between them.  at is the statement a task is at; a task  *)
(* that is suspended waits at an await.                                    *)
(***************************************************************************)
EventLoop == [kind |-> "loop", id |-> 0]

\* the file writes awaited as well
is_await_with_writes(at) ==
    at \in {"call_fetch", "call_sleep", "call_pattern_sleep", "appending", "saving"}

\* the statements of worker_scrape that are awaited: the detail fetch, the
\* delay after a result, the delay after a pattern
is_await(at) == at \in {"call_fetch", "call_sleep", "call_pattern_sleep"}

\* the statement a worker goes on with after the await it was suspended at
resumed(at, left) ==
    IF at = "call_fetch" THEN "row"
    ELSE IF at = "call_sleep" THEN (IF left > 1 THEN "call_fetch" ELSE "checkpoint")
    ELSE IF at = "call_pattern_sleep" THEN "return"
    ELSE at

\* what run_auto_save finds when it reads the worker sinks: during is the
\* workers that are between the start and the end of a write, cut the sinks
\* that end with an incomplete row, rows whether any sink has a row, busy
\* the workers that have not returned
sinks_read(c, op) ==
    [op |-> op,
     during |-> {w \in CoordWorkerIds : c.tasks[w].at \in {"appending", "saving"}},
     cut |-> {w \in CoordWorkerIds : c.sinks[w].partial},
     rows |-> \E w \in CoordWorkerIds : c.sinks[w].rows > 0,
     busy |-> {w \in CoordWorkerIds : c.tasks[w].at # "returned"}]

InitLoop ==
    /\ pc = "coordinator"
    /\ start_number = 1
    /\ resume = FALSE
    /\ current_file_number = 1
    /\ consecutive_misses = 0
    /\ progress_file = NoFile
    /\ output_file = NoSink
    /\ call = NoCall
    /\ hist = NewHist(NoFile)
    /\ runs = 1
    /\ last_saved = -1
    /\ rw = NoRange
    /\ ad = NoAddress
    /\ par = NoPar
    /\ fs = NoFs
    /\ merge = NoMerge
    /\ nw = NoWorker
    /\ cv = NoConversion
    /\ \E left \in [CoordWorkerIds -> 1 .. MaxKeys] :
          co = [mode |-> "name",
                running |-> EventLoop,
                tasks |-> [w \in CoordWorkerIds |->
                              [at |-> "call_fetch", left |-> left[w], suspended |-> TRUE]],
                sinks |-> [w \in CoordWorkerIds |-> [rows |-> 0, partial |-> FALSE]],
                checkpoints |-> [w \in CoordWorkerIds |->
                                    [exists |-> FALSE, partial |-> FALSE]],
                reads |-> {},
                state |-> "gathering"]

\* the running worker reaches an await: it is suspended and the loop is free
TaskAwait(w) ==
    /\ co.running = Worker(w)
    /\ is_await(co.tasks[w].at)
    /\ co' = [co EXCEPT !.running = EventLoop, !.tasks[w].suspended = TRUE]
    /\ UNCHANGED <<seqVars, call, par, fs, merge, nw, cv, rw, ad>>

\* the loop resumes a suspended worker: what it awaited is done
LoopResume(w) ==
    /\ co.running = EventLoop
    /\ co.tasks[w].suspended
    /\ co' = [co EXCEPT !.running = Worker(w),
                        !.tasks[w].suspended = FALSE,
                        !.tasks[w].at = resumed(@, co.tasks[w].left),
                        !.tasks[w].left = IF co.tasks[w].at = "call_sleep" THEN @ - 1 ELSE @]
    /\ UNCHANGED <<seqVars, call, par, fs, merge, nw, cv, rw, ad>>

\* the fetched record does not match the criteria, or there is none: no row
SkipRow(w) ==
    /\ co.running = Worker(w)
    /\ co.tasks[w].at = "row"
    /\ co' = [co EXCEPT !.tasks[w].at = "call_sleep"]
    /\ UNCHANGED <<seqVars, call, par, fs, merge, nw, cv, rw, ad>>

\* df.to_csv begins: the sink is open and a part of the row is in it
AppendBegin(w) ==
    /\ co.running = Worker(w)
    /\ co.tasks[w].at = "row"
    /\ co' = [co EXCEPT !.tasks[w].at = "appending", !.sinks[w].partial = TRUE]
    /\ UNCHANGED <<seqVars, call, par, fs, merge, nw, cv, rw, ad>>

\* df.to_csv ends: the row is complete and the sink closed
AppendEnd(w) ==
    /\ co.running = Worker(w)
    /\ co.tasks[w].at = "appending"
    /\ co' = [co EXCEPT !.tasks[w].at = "call_sleep",
                        !.sinks[w] = [rows |-> @.rows + 1, partial |-> FALSE]]
    /\ UNCHANGED <<seqVars, call, par, fs, merge, nw, cv, rw, ad>>

\* the checkpoint is opened with 'w' and json.dump begins
CheckpointBegin(w) ==
    /\ co.running = Worker(w)
    /\ co.tasks[w].at = "checkpoint"
    /\ co' = [co EXCEPT !.tasks[w].at = "saving",
                        !.checkpoints[w] = [exists |-> TRUE, partial |-> TRUE]]
    /\ UNCHANGED <<seqVars, call, par, fs, merge, nw, cv, rw, ad>>

\* json.dump ends and the with block closes the checkpoint
CheckpointEnd(w) ==
    /\ co.running = Worker(w)
    /\ co.tasks[w].at = "saving"
    /\ co' = [co EXCEPT !.tasks[w].at = "call_pattern_sleep",
                        !.checkpoints[w].partial = FALSE]
    /\ UNCHANGED <<seqVars, call, par, fs, merge, nw, cv, rw, ad>>

\* the worker returns its count: its task is done
TaskReturn(w) ==
    /\ co.running = Worker(w)
    /\ co.tasks[w].at = "return"
    /\ co' = [co EXCEPT !.running = EventLoop, !.tasks[w].at = "returned"]
    /\ UNCHANGED <<seqVars, call, par, fs, merge, nw, cv, rw, ad>>

\* auto_save_task's sleep is over and the loop resumes it: run_auto_save
\* runs to its end, then the task sleeps again
AutoSaveWake ==
    /\ co.running = EventLoop
    /\ co.state = "gathering"
    /\ co' = [co EXCEPT !.reads = @ \cup {sinks_read(co, "periodic")}]
    /\ UNCHANGED <<seqVars, call, par, fs, merge, nw, cv, rw, ad>>

\* every worker is done: the loop resumes run_parallel, whose finally block
\* cancels auto_save_task and runs the final run_auto_save
FinalSave ==
    /\ co.running = EventLoop
    /\ co.state = "gathering"
    /\ \A w \in CoordWorkerIds : co.tasks[w].at = "returned"
    /\ co' = [co EXCEPT !.reads = @ \cup {sinks_read(co, "final")},
                        !.state = "saved"]
    /\ UNCHANGED <<seqVars, call, par, fs, merge, nw, cv, rw, ad>>

NextLoop ==
    \/ \E w \in CoordWorkerIds : TaskAwait(w)
    \/ \E w \in CoordWorkerIds : LoopResume(w)
    \/ \E w \in CoordWorkerIds : SkipRow(w)
    \/ \E w \in CoordWorkerIds : AppendBegin(w)
    \/ \E w \in CoordWorkerIds : AppendEnd(w)
    \/ \E w \in CoordWorkerIds : CheckpointBegin(w)
    \/ \E w \in CoordWorkerIds : CheckpointEnd(w)
    \/ \E w \in CoordWorkerIds : TaskReturn(w)
    \/ AutoSaveWake
    \/ FinalSave

SpecLoop == InitLoop /\ [][NextLoop]_vars

(***************************************************************************)
(* convert_date_to_iso of mn_scraper.py.  A string is a sequence of        *)
(* characters; datetime.strptime and strftime are modelled by what they    *)
(* accept and produce.                                                     *)
(***************************************************************************)
DigitChars == <<"0", "1", "2", "3", "4", "5", "6", "7", "8", "9">>
Digits == {DigitChars[i] : i \in 1 .. 10}
Whitespace == {" ", "\t", "\n"}

DigitVal(c) == (CHOOSE i \in 1 .. 10 : DigitChars[i] = c) - 1

RECURSIVE Num(_)
\* int() of a string of digits
Num(s) == IF s = <<>> THEN 0 ELSE 10 * Num(SubSeq(s, 1, Len(s) - 1)) + DigitVal(s[Len(s)])

RECURSIVE strip(_)
\* str.strip()
strip(s) ==
    IF s = <<>> THEN s
    ELSE IF s[1] \in Whitespace THEN strip(Tail(s))
    ELSE IF s[Len(s)] \in Whitespace THEN strip(SubSeq(s, 1, Len(s) - 1))
    ELSE s

\* the text %m accepts: 1[0-2]|0[1-9]|[1-9]
month_directive(s) ==
    \/ Len(s) = 2 /\ s[1] = "1" /\ s[2] \in {"0", "1", "2"}
    \/ Len(s) = 2 /\ s[1] = "0" /\ s[2] \in Digits \ {"0"}
    \/ Len(s) = 1 /\ s[1] \in Digits \ {"0"}

\* the text %d accepts: 3[0-1]|[1-2]\d|0[1-9]|[1-9]| [1-9]
day_directive(s) ==
    \/ Len(s) = 2 /\ s[1] = "3" /\ s[2] \in {"0", "1"}
    \/ Len(s) = 2 /\ s[1] \in {"1", "2"} /\ s[2] \in Digits
    \/ Len(s) = 2 /\ s[1] \in {"0", " "} /\ s[2] \in Digits \ {"0"}
    \/ Len(s) = 1 /\ s[1] \in Digits \ {"0"}

\* the text %Y accepts: \d\d\d\d
year_directive(s) == Len(s) = 4 /\ \A i \in 1 .. 4 : s[i] \in Digits

is_leap(year) == (year % 4 = 0) /\ ((year % 100 # 0) \/ (year % 400 = 0))

days_in_month(year, month) ==
    IF month = 2 THEN (IF is_leap(year) THEN 29 ELSE 28)
    ELSE IF month \in {4, 6, 9, 11} THEN 30 ELSE 31

NoDate == [ok |-> FALSE, year |-> 0, month |-> 0, day |-> 0]

\* datetime.strptime(date_str, '%m/%d/%Y'): the whole string has to match,
\* and the fields have to make a date (ok = FALSE: ValueError)
strptime(s) ==
    LET slashes == {i \in 1 .. Len(s) : s[i] = "/"} IN
    IF Cardinality(slashes) # 2 THEN NoDate
    ELSE LET i == CHOOSE i \in slashes : \A j \in slashes : i <= j
             j == CHOOSE j \in slashes : j # i
             m == SubSeq(s, 1, i - 1)
             d == SubSeq(s, i + 1, j - 1)
             y == SubSeq(s, j + 1, Len(s))
         IN  IF ~(month_directive(m) /\ day_directive(d) /\ year_directive(y)) THEN NoDate
             ELSE LET year == Num(y)
                      month == Num(m)
                      day == Num(IF d[1] = " " THEN Tail(d) ELSE d)
                  IN  IF year < 1 \/ day > days_in_month(year, month) THEN NoDate
                      ELSE [ok |-> TRUE, year |-> year, month |-> month, day |-> day]

\* two digits, zero-padded
two_digits(n) == <<DigitChars[(n \div 10) + 1], DigitChars[(n % 10) + 1]>>

RECURSIVE decimal(_)
\* the digits of a number, without padding
decimal(n) == IF n < 10 THEN <<DigitChars[n + 1]>> ELSE decimal(n \div 10) \o <<DigitChars[(n % 10) + 1]>>

\* %Y of strftime: four digits, zero-padded when the C library pads years
\* below 1000 and as they are when it does not
year_text(year, pads) ==
    IF pads THEN two_digits(year \div 100) \o two_digits(year % 100) ELSE decimal(year)

\* dt.strftime('%Y-%m-%d')
strftime(dt, pads) ==
    year_text(dt.year, pads) \o <<"-">> \o two_digits(dt.month) \o <<"-">> \o two_digits(dt.day)

\* the day first, with slashes
strftime_day_first(dt, pads) ==
    two_digits(dt.day) \o <<"/">> \o two_digits(dt.month) \o <<"/">> \o year_text(dt.year, pads)

\* what convert_date_to_iso returns for a date that was parsed
formatted(dt, pads) == strftime(dt, pads)

\* re.match(r'^\d{4}-\d{2}-\d{2}', date_str)
iso_match(s) ==
    /\ Len(s) >= 10
    /\ \A i \in {1, 2, 3, 4, 6, 7, 9, 10} : s[i] \in Digits
    /\ s[5] = "-" /\ s[8] = "-"

convert_date_to_iso(date_str, pads) ==
    IF date_str = <<>> \/ strip(date_str) = <<>> THEN <<>>
    ELSE LET s == strip(date_str)
             dt == strptime(s)
         IN  IF dt.ok THEN formatted(dt, pads)
             ELSE IF iso_match(s) THEN Slice(s, 0, 10)
             ELSE s

\* the texts of the fields of the dates given to the function
MonthTexts == {<<"1">>, <<"0", "2">>, <<"1", "2">>, <<"1", "3">>, <<"0">>}
DayTexts == {<<"5">>, <<"0", "1">>, <<" ", "5">>, <<"2", "9">>, <<"3", "1">>, <<"3", "2">>}
YearTexts ==
    {<<"2", "0", "2", "4">>, <<"2", "0", "2", "3">>, <<"1", "9", "0", "0">>,
     <<"0", "9", "9", "9">>, <<"0", "0", "0", "0">>, <<"2", "4">>,
     <<"2", "0", "2", "4", "5">>}
Leading == {<<>>, <<" ">>}
Trailing == {<<>>, <<"\t">>, <<"T", "1", "0">>, <<" ", "x">>}

\* the strings given to the function: dates with slashes, dates with dashes,
\* other text, with white space and other characters around them
DateStrings ==
    {l \o m \o <<"/">> \o d \o <<"/">> \o y \o t :
        l \in Leading, m \in MonthTexts, d \in DayTexts, y \in YearTexts, t \in Trailing}
    \cup {l \o y \o <<"-">> \o m \o <<"-">> \o d \o t :
        l \in Leading, m \in MonthTexts, d \in DayTexts, y \in YearTexts, t \in Trailing}
    \cup {l \o t : l \in Leading, t \in Trailing}
    \cup {<<"n", "/", "a">>, <<"1", "/", "5">>, <<" ", "\t">>}

InitConversion ==
    /\ pc = "conversion"
    /\ start_number = 1
    /\ resume = FALSE
    /\ current_file_number = 1
    /\ consecutive_misses = 0
    /\ progress_file = NoFile
    /\ output_file = NoSink
    /\ call = NoCall
    /\ hist = NewHist(NoFile)
    /\ runs = 1
    /\ last_saved = -1
    /\ rw = NoRange
    /\ ad = NoAddress
    /\ par = NoPar
    /\ fs = NoFs
    /\ merge = NoMerge
    /\ nw = NoWorker
    /\ co = NoCoord
    /\ \E x \in DateStrings, pads \in BOOLEAN :
          cv = [pc |-> "input", pads |-> pads, input |-> x, once |-> <<>>, twice |-> <<>>]

\* convert_date_to_iso(x)
Convert ==
    /\ cv.pc = "input"
    /\ cv' = [cv EXCEPT !.pc = "once", !.once = convert_date_to_iso(cv.input, cv.pads)]
    /\ UNCHANGED <<seqVars, call, par, fs, merge, nw, co, rw, ad>>

\* convert_date_to_iso of the value it returned
ConvertAgain ==
    /\ cv.pc = "once"
    /\ cv' = [cv EXCEPT !.pc = "twice", !.twice = convert_date_to_iso(cv.once, cv.pads)]
    /\ UNCHANGED <<seqVars, call, par, fs, merge, nw, co, rw, ad>>

NextConversion == Convert \/ ConvertAgain

SpecConversion == InitConversion /\ [][NextConversion]_vars

(***************************************************************************)
(* The file-number worker of the parallel run (scrape_range of             *)
(* mn_scraper_parallel.py): one worker with its partition [start, end],    *)
(* its sink output/businesses_worker_<id>.csv and its checkpoint           *)
(* progress_worker_<id>.json, over kills and restarts.                     *)
(***************************************************************************)
\* the partitions of the worker
RangeStarts == {9, 10}
RangeEnds == {10, 11}

NoRangeCheckpoint == [exists |-> FALSE, readable |-> TRUE, last_file_number |-> 0]

\* json.dump of the checkpoint into a file opened with 'w'
RangeCheckpoint(file_number) ==
    [exists |-> TRUE, readable |-> TRUE, last_file_number |-> file_number]

\* the last_file_number of the checkpoint on disk, or -1
PersistedKey(file) == IF file.exists /\ file.readable THEN file.last_file_number ELSE -1

\* the resume block of scrape_range: current_start
resume_start(file, start, end) ==
    IF file.exists /\ file.readable
       /\ file.last_file_number >= start /\ file.last_file_number < end
    THEN file.last_file_number + 1
    ELSE start

\* the keys of the rows of a sink
sink_keys(file) == {file.rows[i].file_number : i \in 1 .. Len(file.rows)}

\* h: what happened in the current run (resumed: the checkpoint found at
\* startup, or -1; first: the key the run started at; found: the keys that
\* yielded a record; probed: the keys probed)
NewRangeHist == [resumed |-> -1, first |-> 0, found |-> {}, probed |-> {}]

InitRange ==
    /\ pc = "range"
    /\ start_number = 1
    /\ resume = FALSE
    /\ current_file_number = 1
    /\ consecutive_misses = 0
    /\ progress_file = NoFile
    /\ output_file = NoSink
    /\ call = NoCall
    /\ hist = NewHist(NoFile)
    /\ runs = 1
    /\ last_saved = -1
    /\ ad = NoAddress
    /\ par = NoPar
    /\ fs = NoFs
    /\ merge = NoMerge
    /\ nw = NoWorker
    /\ co = NoCoord
    /\ cv = NoConversion
    /\ \E start \in RangeStarts, end \in RangeEnds :
          /\ start <= end
          /\ rw = [pc |-> "start", start |-> start, end |-> end, file_number |-> start,
                   output_file |-> NoSink, progress_file |-> NoRangeCheckpoint,
                   saved |-> -1, runs |-> 1, h |-> NewRangeHist]

\* scrape_range up to its loop: the checkpoint, current_start, the browser
RangeStart ==
    /\ rw.pc = "start"
    /\ LET current_start == resume_start(rw.progress_file, rw.start, rw.end) IN
       rw' = [rw EXCEPT !.file_number = current_start,
                        !.h.resumed = PersistedKey(rw.progress_file),
                        !.h.first = current_start,
                        !.pc = "loop"]
    /\ UNCHANGED <<seqVars, call, par, fs, merge, nw, co, cv, ad>>

\* scraper.initialize() raises: the exception leaves scrape_range
RangeInitializeFails ==
    /\ rw.pc = "start"
    /\ rw' = [rw EXCEPT !.pc = "failed"]
    /\ UNCHANGED <<seqVars, call, par, fs, merge, nw, co, cv, ad>>

\* one pass of the loop: the probe, the row when a record was found, the
\* checkpoint every CheckpointEvery file numbers, the delay
RangeProbe ==
    /\ rw.pc = "loop"
    /\ rw.file_number <= rw.end
    /\ \E data \in {None, BusinessRecord(rw.file_number, "ACME LLC", "LLC")} :
          rw' = [rw EXCEPT !.output_file = IF Truthy(data) THEN append_to_csv(@, data) ELSE @,
                           !.progress_file = IF checkpoint_due(rw.file_number)
                                             THEN RangeCheckpoint(rw.file_number) ELSE @,
                           !.saved = IF checkpoint_due(rw.file_number)
                                     THEN rw.file_number ELSE @,
                           !.h.probed = @ \cup {rw.file_number},
                           !.h.found = IF Truthy(data) THEN @ \cup {rw.file_number} ELSE @,
                           !.file_number = @ + 1]
    /\ UNCHANGED <<seqVars, call, par, fs, merge, nw, co, cv, ad>>

\* a record was found and to_csv raises (the disk is full, the file is
\* locked): the except branch prints, sleeps and continues with the next key
RangeWriteFails ==
    /\ rw.pc = "loop"
    /\ rw.file_number <= rw.end
    /\ rw' = [rw EXCEPT !.h.probed = @ \cup {rw.file_number},
                        !.h.found = @ \cup {rw.file_number},
                        !.file_number = @ + 1]
    /\ UNCHANGED <<seqVars, call, par, fs, merge, nw, co, cv, ad>>

\* the range is exhausted: the worker returns found_count
RangeFinish ==
    /\ rw.pc = "loop"
    /\ rw.file_number > rw.end
    /\ rw' = [rw EXCEPT !.pc = "done"]
    /\ UNCHANGED <<seqVars, call, par, fs, merge, nw, co, cv, ad>>

\* the process is killed
RangeKill ==
    /\ rw.pc \in {"start", "loop"}
    /\ rw' = [rw EXCEPT !.pc = "dead"]
    /\ UNCHANGED <<seqVars, call, par, fs, merge, nw, co, cv, ad>>

\* the same command is run again
RangeRestart ==
    /\ rw.pc \in {"done", "dead", "failed"}
    /\ rw.runs < MaxRuns
    /\ rw' = [rw EXCEPT !.pc = "start", !.runs = @ + 1, !.file_number = rw.start,
                        !.saved = -1, !.h = NewRangeHist]
    /\ UNCHANGED <<seqVars, call, par, fs, merge, nw, co, cv, ad>>

NextRange ==
    \/ RangeStart
    \/ RangeInitializeFails
    \/ RangeProbe
    \/ RangeWriteFails
    \/ RangeFinish
    \/ RangeKill
    \/ RangeRestart

SpecRange == InitRange /\ [][NextRange]_vars

(***************************************************************************)
(* parse_address of mn_scraper.py.  A string is a sequence of characters,  *)
(* "endash" stands for the one character U+2013; the regular expressions   *)
(* are modelled by the strings they match and the groups they capture.     *)
(***************************************************************************)
LowerChars ==
    <<"a", "b", "c", "d", "e", "f", "g", "h", "i", "j", "k", "l", "m",
      "n", "o", "p", "q", "r", "s", "t", "u", "v", "w", "x", "y", "z">>
UpperChars ==
    <<"A", "B", "C", "D", "E", "F", "G", "H", "I", "J", "K", "L", "M",
      "N", "O", "P", "Q", "R", "S", "T", "U", "V", "W", "X", "Y", "Z">>
\* [A-Z] under re.IGNORECASE
Letters26 == {LowerChars[i] : i \in 1 .. 26} \cup {UpperChars[i] : i \in 1 .. 26}

\* str.upper()
upper(s) ==
    [i \in 1 .. Len(s) |->
        IF \E n \in 1 .. 26 : LowerChars[n] = s[i]
        THEN UpperChars[CHOOSE n \in 1 .. 26 : LowerChars[n] = s[i]] ELSE s[i]]

\* str.lower()
lower(s) ==
    [i \in 1 .. Len(s) |->
        IF \E n \in 1 .. 26 : UpperChars[n] = s[i]
        THEN LowerChars[CHOOSE n \in 1 .. 26 : UpperChars[n] = s[i]] ELSE s[i]]

STREET_TYPES ==
    {<<"s", "t", "r", "e", "e", "t">>, <<"s", "t">>, <<"s", "t", "r">>,
     <<"a", "v", "e", "n", "u", "e">>, <<"a", "v", "e">>, <<"a", "v">>,
     <<"r", "o", "a", "d">>, <<"r", "d">>, <<"d", "r", "i", "v", "e">>,
     <<"d", "r">>, <<"l", "a", "n", "e">>, <<"l", "n">>,
     <<"c", "o", "u", "r", "t">>, <<"c", "t">>,
     <<"c", "i", "r", "c", "l", "e">>, <<"c", "i", "r">>,
     <<"b", "o", "u", "l", "e", "v", "a", "r", "d">>,
     <<"b", "l", "v", "d">>, <<"w", "a", "y">>,
     <<"p", "l", "a", "c", "e">>, <<"p", "l">>,
     <<"t", "r", "a", "i", "l">>, <<"t", "r", "l">>, <<"t", "r">>,
     <<"p", "a", "r", "k", "w", "a", "y">>, <<"p", "k", "w", "y">>,
     <<"h", "i", "g", "h", "w", "a", "y">>, <<"h", "w", "y">>,
     <<"t", "e", "r", "r", "a", "c", "e">>, <<"t", "e", "r">>,
     <<"p", "a", "t", "h">>, <<"l", "o", "o", "p">>,
     <<"s", "q", "u", "a", "r", "e">>, <<"s", "q">>,
     <<"c", "r", "o", "s", "s", "i", "n", "g">>, <<"x", "i", "n", "g">>}

DIRECTIONS ==
    {<<"n">>, <<"s">>, <<"e">>, <<"w">>, <<"n", "e">>, <<"n", "w">>,
     <<"s", "e">>, <<"s", "w">>, <<"n", "o", "r", "t", "h">>,
     <<"s", "o", "u", "t", "h">>, <<"e", "a", "s", "t">>,
     <<"w", "e", "s", "t">>}

\* the keywords of unit_patterns
UnitKeywords ==
    {<<"S", "T", "E">>, <<"S", "U", "I", "T", "E">>, <<"A", "P", "T">>,
     <<"A", "P", "A", "R", "T", "M", "E", "N", "T">>,
     <<"U", "N", "I", "T">>, <<"#">>, <<"F", "L">>,
     <<"F", "L", "O", "O", "R">>, <<"R", "M">>, <<"R", "O", "O", "M">>,
     <<"B", "L", "D", "G">>, <<"B", "U", "I", "L", "D", "I", "N", "G">>}

\* the country lines that are dropped
CountryLines ==
    {<<"U", "S", "A">>, <<"U", "S">>,
     <<"U", "N", "I", "T", "E", "D", " ", "S", "T", "A", "T", "E", "S">>}

RECURSIVE split(_, _)
\* str.split(sep) for a separator of one character
split(s, sep) ==
    IF \A i \in 1 .. Len(s) : s[i] # sep THEN <<s>>
    ELSE LET i == CHOOSE i \in 1 .. Len(s) : s[i] = sep /\ \A j \in 1 .. (i - 1) : s[j] # sep
         IN  <<SubSeq(s, 1, i - 1)>> \o split(SubSeq(s, i + 1, Len(s)), sep)

RECURSIVE split_words(_)
\* str.split(): the words between runs of white space
split_words(s) ==
    LET t == strip(s) IN
    IF t = <<>> THEN <<>>
    ELSE IF \A i \in 1 .. Len(t) : t[i] \notin Whitespace THEN <<t>>
    ELSE LET i == CHOOSE i \in 1 .. Len(t) :
                      t[i] \in Whitespace /\ \A j \in 1 .. (i - 1) : t[j] \notin Whitespace
         IN  <<SubSeq(t, 1, i - 1)>> \o split_words(SubSeq(t, i + 1, Len(t)))

RECURSIVE join(_, _)
\* sep.join(parts)
join(parts, sep) ==
    IF parts = <<>> THEN <<>>
    ELSE IF Len(parts) = 1 THEN parts[1]
    ELSE parts[1] \o sep \o join(Tail(parts), sep)

\* the first index from i on that holds no white space (Len(s) + 1: none)
skip_space(s, i) ==
    IF \E j \in i .. Len(s) : s[j] \notin Whitespace
    THEN CHOOSE j \in i .. Len(s) : s[j] \notin Whitespace /\ \A k \in i .. (j - 1) : s[k] \in Whitespace
    ELSE Len(s) + 1

\* ,\s*[A-Z]{2} with the comma at index i: the index of the first letter, or 0
state_after(s, i) ==
    LET j == skip_space(s, i + 1) IN
    IF i >= 2 /\ i <= Len(s) /\ s[i] = "," /\ j + 1 <= Len(s)
       /\ s[j] \in Letters26 /\ s[j + 1] \in Letters26
    THEN j ELSE 0

\* re.match(r'^.+,\s*[A-Z]{2}\s+\d{5}', line, re.IGNORECASE)
city_state_zip_pattern(line) ==
    \E i \in 2 .. Len(line) :
        LET j == state_after(line, i)
            k == skip_space(line, j + 2)
        IN  /\ j # 0
            /\ k > j + 2
            /\ k + 4 <= Len(line)
            /\ \A n \in k .. (k + 4) : line[n] \in Digits

\* re.match(r'^.+,\s*[A-Z]{2}\s*$', line, re.IGNORECASE)
city_state_pattern(line) ==
    \E i \in 2 .. Len(line) :
        LET j == state_after(line, i) IN
        j # 0 /\ skip_space(line, j + 2) = Len(line) + 1

\* unit_patterns.match(line): a keyword at the start, in any case (the dot
\* and the digits after it are optional)
unit_patterns(line) ==
    \E kw \in UnitKeywords :
        Len(line) >= Len(kw) /\ upper(SubSeq(line, 1, Len(kw))) = kw

\* the classes of the lines, as the loop over the lines tells them apart
is_city_line(line) == city_state_zip_pattern(line) \/ city_state_pattern(line)
is_unit_line(line) == ~is_city_line(line) /\ unit_patterns(line)
is_street_line(line) == ~is_city_line(line) /\ ~unit_patterns(line)

\* the last line of a class (<<>>: none)
last_line(lines, Class(_)) ==
    LET idx == {i \in 1 .. Len(lines) : Class(lines[i])} IN
    IF idx = {} THEN <<>> ELSE lines[CHOOSE i \in idx : \A j \in idx : j <= i]

\* the first line of a class (<<>>: none)
first_line(lines, Class(_)) ==
    LET idx == {i \in 1 .. Len(lines) : Class(lines[i])} IN
    IF idx = {} THEN <<>> ELSE lines[CHOOSE i \in idx : \A j \in idx : i <= j]

\* unit_line after the loop: every unit line is assigned, the last one stays
unit_line_of(lines) == last_line(lines, is_unit_line)

\* street_line after the loop: assigned only while it is empty
street_line_of(lines) == first_line(lines, is_street_line)

\* city_state_zip_line after the loop
city_line_of(lines) == last_line(lines, is_city_line)

\* re.match(r'^(\d+[-\d]*)\s+(.+)$', street_line): the groups, or no match
street_number_pattern(line) ==
    LET run == {n \in 1 .. Len(line) : \A i \in 1 .. n : line[i] \in Digits \cup {"-"}}
        n == IF run = {} THEN 0 ELSE CHOOSE n \in run : \A m \in run : m <= n
        r == skip_space(line, n + 1)
    IN  IF n >= 1 /\ line[1] \in Digits /\ r > n + 1 /\ r <= Len(line)
        THEN [match |-> TRUE, number |-> SubSeq(line, 1, n), remainder |-> SubSeq(line, r, Len(line))]
        ELSE [match |-> FALSE, number |-> <<>>, remainder |-> line]

\* the direction as it is written
direction_as_written(word) == word

\* the direction as it is stored: words[-1].upper()
direction_text(word) == upper(word)

\* words[:-1]
but_last(words) == SubSeq(words, 1, Len(words) - 1)

\* step 4: the fields of the street line
parse_street(street_line) ==
    LET m == street_number_pattern(street_line)
        words == split_words(m.remainder)
        has_direction == words # <<>> /\ lower(words[Len(words)]) \in DIRECTIONS
        words2 == IF has_direction THEN but_last(words) ELSE words
        has_type == words2 # <<>> /\ lower(words2[Len(words2)]) \in STREET_TYPES
        words3 == IF has_type THEN but_last(words2) ELSE words2
    IN  [street_number |-> m.number,
         street_name |-> join(words3, <<" ">>),
         street_type |-> IF has_type THEN words2[Len(words2)] ELSE <<>>,
         street_direction |-> IF has_direction THEN direction_text(words[Len(words)]) ELSE <<>>]

\* str.replace of the en-dash by a hyphen
replace_endash(s) == [i \in 1 .. Len(s) |-> IF s[i] = "endash" THEN "-" ELSE s[i]]

\* re.match(r'^(.+?),\s*([A-Z]{2})\s+([\d\-\u2013]+)$', line, re.IGNORECASE)
\* with the comma at index i
zip_after(line, i) ==
    LET j == state_after(line, i)
        k == skip_space(line, j + 2)
    IN  /\ j # 0
        /\ k > j + 2
        /\ k <= Len(line)
        /\ \A n \in k .. Len(line) : line[n] \in Digits \cup {"-", "endash"}

\* step 5: the fields of the city, state and zip line
parse_city(line) ==
    LET with_zip == {i \in 2 .. Len(line) : zip_after(line, i)}
        without == {i \in 2 .. Len(line) : state_after(line, i) # 0 /\ state_after(line, i) + 1 = Len(line)}
    IN  IF with_zip # {}
        THEN LET i == CHOOSE i \in with_zip : \A n \in with_zip : i <= n
                 j == state_after(line, i)
             IN  [city |-> strip(SubSeq(line, 1, i - 1)),
                  state |-> upper(SubSeq(line, j, j + 1)),
                  zip |-> replace_endash(SubSeq(line, skip_space(line, j + 2), Len(line)))]
        ELSE IF without # {}
        THEN LET i == CHOOSE i \in without : \A n \in without : i <= n
                 j == state_after(line, i)
             IN  [city |-> strip(SubSeq(line, 1, i - 1)),
                  state |-> upper(SubSeq(line, j, j + 1)), zip |-> <<>>]
        ELSE [city |-> line, state |-> <<>>, zip |-> <<>>]

\* steps 1 and 2: the lines of the address
address_lines(text) ==
    LET stripped == [i \in 1 .. Len(split(strip(text), "\n")) |-> strip(split(strip(text), "\n")[i])]
        lines == SelectSeq(SelectSeq(stripped, LAMBDA l : l # <<>>),
                           LAMBDA l : upper(l) \notin CountryLines)
    IN  IF Len(lines) = 1 /\ \E i \in 1 .. Len(lines[1]) : lines[1][i] = ","
        THEN LET parts == split(lines[1], ",") IN
             <<strip(parts[1]), strip(join(Tail(parts), <<",">>))>>
        ELSE lines

\* a Python value given as address_str or date_str: None or a string
PyNone == [none |-> TRUE, text |-> <<>>]
PyStr(text) == [none |-> FALSE, text |-> text]

\* not x, for None or a string
falsy(x) == x.none \/ x.text = <<>>

\* x == ''
is_empty_string(x) == ~x.none /\ x.text = <<>>

\* the guard of parse_address: if not address_str
no_address(x) == falsy(x)

EmptyAddress ==
    [raised |-> FALSE, street_number |-> <<>>, street_name |-> <<>>, street_type |-> <<>>,
     street_direction |-> <<>>, unit |-> <<>>, city |-> <<>>, state |-> <<>>, zip |-> <<>>]

\* None has no strip: AttributeError
Raised == [EmptyAddress EXCEPT !.raised = TRUE]

parse_address(address_str) ==
    IF no_address(address_str) THEN EmptyAddress
    ELSE IF address_str.none THEN Raised
    ELSE LET lines == address_lines(address_str.text)
             street_line == street_line_of(lines)
             unit_line == unit_line_of(lines)
             city_state_zip_line == city_line_of(lines)
             street == IF street_line # <<>> THEN parse_street(street_line)
                       ELSE [street_number |-> <<>>, street_name |-> <<>>,
                             street_type |-> <<>>, street_direction |-> <<>>]
             city == IF city_state_zip_line # <<>> THEN parse_city(city_state_zip_line)
                     ELSE [city |-> <<>>, state |-> <<>>, zip |-> <<>>]
         IN  [raised |-> FALSE,
              street_number |-> street.street_number, street_name |-> street.street_name,
              street_type |-> street.street_type, street_direction |-> street.street_direction,
              unit |-> unit_line,
              city |-> city.city, state |-> city.state, zip |-> city.zip]

\* convert_date_to_iso for None or a string (raised: None has no strip)
convert_date(date_str, pads) ==
    IF falsy(date_str) THEN [raised |-> FALSE, text |-> <<>>]
    ELSE IF date_str.none THEN [raised |-> TRUE, text |-> <<>>]
    ELSE [raised |-> FALSE, text |-> convert_date_to_iso(date_str.text, pads)]

(***************************************************************************)
(* The calls of the two helper functions: the addresses and dates given to *)
(* them.  ad.parts holds the pieces a structured address was built from.   *)
(***************************************************************************)
StreetNumbers == {<<"1", "2", "3">>, <<"1", "2", "-", "1", "4">>}
StreetNames == {<<"M", "a", "i", "n">>, <<"O", "l", "d", " ", "O", "a", "k">>,
 <<"S", "t", " ", "C", "r", "o", "i", "x">>}
\* a street type or a direction as it is written, and in upper case
StreetTypeWords == {<<"S", "t", "r", "e", "e", "t">>, <<"A", "V", "E">>, <<"t", "r", "l">>}
DirectionWords ==
    {[text |-> <<"N", "E">>, upper |-> <<"N", "E">>],
     [text |-> <<"n">>, upper |-> <<"N">>],
     [text |-> <<"N", "o", "r", "t", "h">>, upper |-> <<"N", "O", "R", "T", "H">>]}
UnitLines == {<<"S", "t", "e", " ", "2", "0", "0">>, <<"A", "P", "T", ".", " ", "5">>}
CityNames == {<<"D", "u", "l", "u", "t", "h">>, <<"S", "t", " ", "P", "a", "u", "l">>}
StateWords ==
    {[text |-> <<"M", "N">>, upper |-> <<"M", "N">>],
     [text |-> <<"m", "n">>, upper |-> <<"M", "N">>]}
ZipWords ==
    {[text |-> <<"5", "5", "4", "0", "1">>, zip |-> <<"5", "5", "4", "0", "1">>],
     [text |-> <<"5", "6", "3", "0", "1", "-", "1", "2", "3", "4">>, zip |-> <<"5", "6", "3", "0", "1", "-", "1", "2", "3", "4">>],
     [text |-> <<"5", "6", "3", "0", "1", "endash", "1", "2", "3", "4">>, zip |-> <<"5", "6", "3", "0", "1", "-", "1", "2", "3", "4">>]}

NoParts ==
    [number |-> <<>>, name |-> <<>>, type |-> <<>>, direction |-> <<>>, unit |-> <<>>,
     city |-> <<>>, state |-> <<>>, zip |-> <<>>]

\* '<number> <name words> <street type> <direction>', an optional unit line,
\* '<city>, <ST> <zip>'
StructuredAddresses ==
    {[text |-> n \o <<" ">> \o m \o <<" ">> \o t \o <<" ">> \o d.text \o <<"\n">>
                 \o (IF u = <<>> THEN <<>> ELSE u \o <<"\n">>)
                 \o c \o <<",", " ">> \o s.text \o <<" ">> \o z.text,
      parts |-> [number |-> n, name |-> m, type |-> t, direction |-> d.upper, unit |-> u,
                 city |-> c, state |-> s.upper, zip |-> z.zip]] :
        n \in StreetNumbers, m \in StreetNames, t \in StreetTypeWords, d \in DirectionWords,
        u \in UnitLines \cup {<<>>}, c \in CityNames, s \in StateWords, z \in ZipWords}

\* the lines of the addresses with several lines of a class
LinePool ==
    {<<"1", "2", "3", " ", "M", "a", "i", "n", " ", "S", "t">>,
     <<"9", " ", "O", "a", "k", " ", "A", "v", "e", " ", "N">>,
     <<"S", "t", "e", " ", "2", "0", "0">>, <<"A", "p", "t", " ", "5">>,
     <<"D", "u", "l", "u", "t", "h", ",", " ", "M", "N", " ", "5", "5", "8", "0", "2">>}

MaxLines == 4

\* addresses of up to MaxLines lines of the pool, in any order
ManyLineAddresses ==
    UNION {{join(ls, <<"\n">>) : ls \in [1 .. n -> LinePool]} : n \in 1 .. MaxLines}

\* other strings: empty, white space, separators, fragments
OddStrings ==
    {<<>>, <<" ">>, <<"\n">>, <<",">>, <<",", " ", "M", "N">>,
     <<"U", "S", "A">>, <<"#">>, <<"1", "2", "3">>, <<"-">>, <<"a", ",">>,
     <<"1", "2", " ">>, <<"1", " ", "S", "t">>,
     <<"x", ",", " ", "y", ",", " ", "M", "N", " ", "5">>,
     <<"S", "t", " ", "P", "a", "u", "l", ",", " ", "M", "N">>,
     <<"1", "2", "3", " ", "F", "i", "r", "s", "t", " ", "A", "v", "e", ",", " ", "D", "u", "l", "u", "t", "h", ",", " ", "M", "N", " ", "5", "5", "8", "0", "2">>,
     <<"F", "l", " ", "2", "\n", "U", "S">>}

AddressInputs ==
    {[kind |-> "structured", address_str |-> PyStr(a.text), parts |-> a.parts] :
        a \in StructuredAddresses}
    \cup {[kind |-> "lines", address_str |-> PyStr(t), parts |-> NoParts] :
        t \in ManyLineAddresses}
    \cup {[kind |-> "odd", address_str |-> PyStr(t), parts |-> NoParts] :
        t \in OddStrings \cup DateStrings}
    \cup {[kind |-> "odd", address_str |-> PyNone, parts |-> NoParts]}

DateInputs == {PyStr(t) : t \in OddStrings \cup DateStrings} \cup {PyNone}

InitAddress ==
    /\ pc = "helpers"
    /\ start_number = 1
    /\ resume = FALSE
    /\ current_file_number = 1
    /\ consecutive_misses = 0
    /\ progress_file = NoFile
    /\ output_file = NoSink
    /\ call = NoCall
    /\ hist = NewHist(NoFile)
    /\ runs = 1
    /\ last_saved = -1
    /\ rw = NoRange
    /\ par = NoPar
    /\ fs = NoFs
    /\ merge = NoMerge
    /\ nw = NoWorker
    /\ co = NoCoord
    /\ cv = NoConversion
    /\ \/ \E a \in AddressInputs :
             ad = [pc |-> "address", kind |-> a.kind, address_str |-> a.address_str,
                   parts |-> a.parts, date_str |-> PyNone, pads |-> TRUE,
                   result |-> EmptyAddress, converted |-> [raised |-> FALSE, text |-> <<>>]]
       \/ \E d \in DateInputs, pads \in BOOLEAN :
             ad = [pc |-> "date", kind |-> "date", address_str |-> PyNone,
                   parts |-> NoParts, date_str |-> d, pads |-> pads,
                   result |-> EmptyAddress, converted |-> [raised |-> FALSE, text |-> <<>>]]

\* parse_address(address_str)
ParseAddress ==
    /\ ad.pc = "address"
    /\ ad' = [ad EXCEPT !.pc = "parsed", !.result = parse_address(ad.address_str)]
    /\ UNCHANGED <<seqVars, call, par, fs, merge, nw, co, cv, rw>>

\* convert_date_to_iso(date_str)
ConvertDate ==
    /\ ad.pc = "date"
    /\ ad' = [ad EXCEPT !.pc = "converted", !.converted = convert_date(ad.date_str, ad.pads)]
    /\ UNCHANGED <<seqVars, call, par, fs, merge, nw, co, cv, rw>>

NextAddress == ParseAddress \/ ConvertDate

SpecAddress == InitAddress /\ [][NextAddress]_vars

(***************************************************************************)
(* Properties of the consolidation (checked under SpecMerge).              *)
(***************************************************************************)
\* the file numbers of a frame
KeysOf(rows) == {rows[i].file_number : i \in 1 .. Len(rows)}

\* the rows of a frame that carry a file number
RowsFor(rows, k) == {rows[i] : i \in {j \in 1 .. Len(rows) : rows[j].file_number = k}}

WorkerSinks == AlphaSinks \cup RangeSinks

\* the keys of a worker sink that a consolidation can read
ReadableKeys(files, f) ==
    IF files[f].exists /\ files[f].readable THEN KeysOf(files[f].rows) ELSE {}

\* C3: when two worker sinks that a consolidation merges both hold a row of
\* one file_number with different field values, the consolidation keeps
\* exactly one row for that file_number, and it is the row of the sink that
\* was merged later.
C3_LaterSourceWins ==
    merge.wrote =>
        \A i, j \in 1 .. Len(merge.inputs) :
            (/\ i < j
             /\ merge.inputs[i] \in WorkerSinks
             /\ merge.inputs[j] \in WorkerSinks) =>
                \A k \in KeysOf(merge.frames[i]) \cap KeysOf(merge.frames[j]) :
                    (/\ RowsFor(merge.frames[i], k) # RowsFor(merge.frames[j], k)
                     /\ \A l \in (j + 1) .. Len(merge.inputs) : k \notin KeysOf(merge.frames[l])) =>
                        /\ Cardinality({n \in 1 .. Len(merge.result) :
                                            merge.result[n].file_number = k}) = 1
                        /\ RowsFor(merge.result, k) \subseteq RowsFor(merge.frames[j], k)

\* C4: the dataset that a consolidation writes holds no two rows with the
\* same file_number, whatever the worker sinks and the earlier consolidated
\* files hold, and the file it writes holds exactly that dataset.
C4_UniqueFileNumber ==
    merge.wrote =>
        /\ \A i, j \in 1 .. Len(merge.result) :
               i # j => merge.result[i].file_number # merge.result[j].file_number
        /\ \E f \in {DataFile, MergedFile, AllFile} : fs[f] = Csv(merge.result)

\* a consolidation wrote a dataset after dropping rows of a repeated file_number
C4_Witness ==
    /\ merge.wrote
    /\ merge.op \in {"run_auto_save", "run_export"}
    /\ \E i, j \in 1 .. Len(merge.frames) :
           i # j /\ KeysOf(merge.frames[i]) \cap KeysOf(merge.frames[j]) # {}
    /\ Len(merge.result) >= 2

\* the rows that the inputs of a consolidation taken from a set of files hold
\* for a file number
InputRows(m, names, k) ==
    UNION {RowsFor(m.frames[i], k) : i \in {j \in 1 .. Len(m.inputs) : m.inputs[j] \in names}}

\* C15: when a consolidation merges the worker sinks against a dataset that
\* an earlier consolidation wrote, the result holds exactly one row for each
\* key of the existing and the new rows, and for a key that both hold the row
\* kept is the row of a worker sink, not the existing one.
C15_NewRowWins ==
    (/\ merge.wrote
     /\ merge.op \in {"run_auto_save", "run_export"}
     /\ \E i \in 1 .. Len(merge.inputs) : merge.inputs[i] \in {DataFile, AllFile}) =>
        /\ KeysOf(merge.result) = UNION {KeysOf(merge.frames[i]) : i \in 1 .. Len(merge.inputs)}
        /\ \A i, j \in 1 .. Len(merge.result) :
               i # j => merge.result[i].file_number # merge.result[j].file_number
        /\ \A k \in KeysOf(merge.result) :
               (/\ InputRows(merge, {DataFile, AllFile}, k) # {}
                /\ InputRows(merge, WorkerSinks, k) # {}) =>
                   RowsFor(merge.result, k) \subseteq InputRows(merge, WorkerSinks, k)

\* C14: every worker sink that is there and can be read when a consolidation
\* runs contributes all of its keys to the consolidated dataset, however many
\* workers the run was started with; a sink that is missing or cannot be read
\* is skipped and the consolidation still ends.
C14_EverySinkContributes ==
    (pc = "consolidated" /\ merge.op \in {"run_auto_save", "run_export"}) =>
        \A f \in AlphaSinks :
            ReadableKeys(fs, f) \subseteq ReadableKeys(fs, DataFile)

(***************************************************************************)
(* Properties of the sequential run (checked under Spec).                  *)
(***************************************************************************)
RECURSIVE TrailingMisses(_)
\* the number of misses since the last hit in a sequence of "H" and "M"
TrailingMisses(trail) ==
    IF trail = <<>> \/ trail[Len(trail)] = "H" THEN 0
    ELSE 1 + TrailingMisses(SubSeq(trail, 1, Len(trail) - 1))

\* C1: the counter of run() is the number of misses since the last hit (a hit
\* resets it to zero), a key is probed only while that number is below
\* MAX_CONSECUTIVE_MISSES, and the loop ends only when it has reached it.
C1_MissTermination ==
    /\ consecutive_misses = TrailingMisses(hist.trail)
    /\ pc = "scrape" => TrailingMisses(hist.trail) < MAX_CONSECUTIVE_MISSES
    /\ pc = "stopped" => TrailingMisses(hist.trail) = MAX_CONSECUTIVE_MISSES

\* a run that found a filing and later stopped on the threshold
C1_Witness ==
    /\ pc = "stopped"
    /\ \E i \in 1 .. Len(hist.trail) : hist.trail[i] = "H"
    /\ consecutive_misses = MAX_CONSECUTIVE_MISSES

Blank(data) == data.business_name = "" /\ data.business_type = ""

\* C5: a lookup whose detail view yields neither a name nor a type is a miss:
\* scrape_business returns None for it and no such row is in the sink.
C5_BlankLookupIsMiss ==
    /\ (call.status = "returned" /\ Truthy(call.result)) => ~Blank(call.result)
    /\ \A i \in 1 .. Len(output_file.rows) : ~Blank(output_file.rows[i])

\* C8: resuming from a checkpoint K >= start_number, the first key probed is
\* K + 1 and no key <= K is probed; with resume off or no checkpoint file the
\* first key probed is start_number.
C8_ResumeAfterCheckpoint ==
    hist.first # 0 =>
        /\ (resume /\ hist.checkpoint >= start_number) =>
               /\ hist.first = hist.checkpoint + 1
               /\ \A k \in hist.probed : k > hist.checkpoint
        /\ (~resume \/ ~hist.found.exists) => hist.first = start_number

\* C9: load_progress returns what the latest save_progress was given, and
\* start_number when there is no checkpoint file.
C9_LoadReturnsLastSave ==
    /\ last_saved # -1 =>
           load_progress(progress_file, start_number) = [kind |-> "int", v |-> last_saved]
    /\ ~progress_file.exists =>
           load_progress(progress_file, start_number) = [kind |-> "int", v |-> start_number]

\* a run that found a checkpoint, overwrote it and stopped
C9_Witness ==
    /\ pc = "stopped"
    /\ hist.checkpoint # -1
    /\ last_saved = current_file_number - 1
    /\ last_saved # hist.checkpoint

\* the last key the worker has fully processed when a run ends: the last key
\* of the run, or when the run processed none the key of the checkpoint it
\* resumed from, or the key before start_number
LastProcessed ==
    IF hist.trail # <<>> THEN hist.first + Len(hist.trail) - 1
    ELSE IF resume /\ hist.checkpoint > start_number THEN hist.checkpoint
    ELSE start_number - 1

\* C26: when a fatal exception or an interrupt ends run(), the checkpoint
\* written on the way out is the last key the worker fully processed (and a
\* fatal exception is re-raised, after the browser is closed).
C26_ExitCheckpoint ==
    pc \in {"interrupted", "failed"} =>
        /\ CheckpointOf(progress_file) = last_saved
        /\ last_saved = LastProcessed

\* C27: with resume enabled and the same start_number, the value in the
\* checkpoint file never decreases, over runs, periodic checkpoints,
\* interrupts, fatal errors and restarts.
C27_CheckpointMonotone ==
    [][(resume /\ CheckpointOf(progress_file) # -1) =>
           CheckpointOf(progress_file') >= CheckpointOf(progress_file)]_vars

\* a checkpoint file that holds no last file number
IsCorrupt(file) == file.exists /\ CheckpointOf(file) = -1

\* C10: a corrupt or unreadable checkpoint is no prior state: the run is not
\* aborted by it and starts at start_number.
C10_CorruptIsNoState ==
    (resume /\ hist.loaded /\ IsCorrupt(hist.found)) =>
        /\ ~(pc = "failed" /\ hist.first = 0)
        /\ hist.first # 0 => hist.first = start_number

(***************************************************************************)
(* Properties of the scrape unit (checked under SpecScrape).               *)
(***************************************************************************)
\* C6: an exception while searching or extracting leads to another attempt:
\* a call whose last attempt ended in an exception has made MAX_RETRIES
\* attempts and returns None.
C6_RetryOnException ==
    (call.status = "returned" /\ call.last_exc) =>
        (call.attempt = MAX_RETRIES /\ call.result = None)

\* C7: a scrape call never raises, makes at most MAX_RETRIES attempts, returns
\* None or a record of its key, and every call returns.
C7_ScrapeTotal ==
    /\ [](/\ call.status \in {"running", "returned"}
          /\ call.attempt <= MAX_RETRIES
          /\ call.status = "running" => call.attempt < MAX_RETRIES
          /\ call.status = "returned" =>
                 (call.result = None \/ (Truthy(call.result) /\ call.result.file_number = call.key)))
    /\ (call.status = "running") ~> (call.status = "returned")

\* a locator whose every attempt raised: None after MAX_RETRIES attempts
C7_Witness ==
    /\ call.fn = "guid"
    /\ call.status = "returned"
    /\ call.attempt = MAX_RETRIES
    /\ call.sleeps = MAX_RETRIES - 1
    /\ call.last_exc
    /\ call.result = None

(***************************************************************************)
(* Properties of the name-mode worker (checked under SpecWorker).          *)
(***************************************************************************)
\* C11: between any two consecutive key attempts of a worker (pattern
\* searches and locator detail fetches in name mode) a politeness delay
\* elapses, whether the earlier attempt ended as a hit, a miss or an error.
C11_PolitenessDelay == nw.h.hasty = {}

\* C16: a record is in the worker's sink only if the year of its filing date
\* is one of the target years and its business type is one of the six target
\* business types.
C16_OnlyTargetRows ==
    /\ Cardinality(TARGET_BUSINESS_TYPES) = 6
    /\ \A i \in 1 .. Len(nw.output_file.rows) :
          LET row == nw.output_file.rows[i] IN
          /\ Len(row.filing_date) >= 4
          /\ SubSeq(row.filing_date, 1, 4) \in TARGET_YEARS
          /\ row.business_type \in TARGET_BUSINESS_TYPES

\* the worker has saved a record and has fetched, and not saved, a record of
\* another type and a record of another year
C16_Witness ==
    /\ nw.output_file.rows # <<>>
    /\ {102, 103} \subseteq nw.processed_guids

\* the completed_patterns of the checkpoint file, when the file can be read
PersistedPatterns ==
    IF nw.progress_file.exists /\ nw.progress_file.readable
    THEN nw.progress_file.completed_patterns ELSE {}

\* C17: when the worker goes on from a pattern the checkpoint on disk names
\* that pattern and every pattern completed before it; a worker never
\* searches a pattern that the checkpoint on disk names as completed; and a
\* worker that starts with every pattern of its partition completed ends
\* without a search.
C17_ResumeFromCheckpoint ==
    /\ [][(nw.pc = "fetch" /\ nw'.pc = "next") =>
              /\ nw'.progress_file.exists /\ nw'.progress_file.readable
              /\ Head(nw.remaining) \in nw'.progress_file.completed_patterns
              /\ nw'.progress_file.completed_patterns = nw'.completed_patterns]_vars
    /\ [][(nw.pc = "next" /\ nw'.pc = "fetch") =>
              Head(nw.remaining) \notin PersistedPatterns]_vars
    /\ [][(/\ nw.pc = "start"
           /\ \A i \in 1 .. Len(nw.patterns) : nw.patterns[i] \in PersistedPatterns) =>
              (nw'.pc \in {"done", "dead"} /\ ~nw'.h.worked)]_vars

\* a restarted worker that found a completed pattern in its checkpoint has
\* searched another pattern
C17_Witness ==
    /\ nw.runs = 2
    /\ nw.h.loaded # {}
    /\ nw.h.searched # {}

\* C18: the processed_guids of every checkpoint on disk has at most the cap
\* of entries, however many locators the worker holds in memory.
C18_BoundedGuids ==
    (nw.progress_file.exists /\ nw.progress_file.readable) =>
        Cardinality(nw.progress_file.processed_guids) <= GuidCap

\* a checkpoint was written by a worker that held more locators than the cap
C18_Witness ==
    /\ nw.progress_file.exists /\ nw.progress_file.readable
    /\ Cardinality(nw.progress_file.processed_guids) = GuidCap
    /\ Cardinality(nw.processed_guids) > GuidCap
    /\ nw.pc = "next"

\* C19: the worker's sink never holds two rows with the same locator, over
\* any sequence of pattern searches, crashes and restarts.
C19_NoDuplicateInSink ==
    \A i, j \in 1 .. Len(nw.output_file.rows) :
        i # j => nw.output_file.rows[i].file_number # nw.output_file.rows[j].file_number

(***************************************************************************)
(* Properties of the coordinator (checked under SpecCoord).                *)
(***************************************************************************)
\* C12: a fatal exception in one worker ends that worker only: the step
\* leaves every other task as it was, every worker that met no fatal
\* exception works through its whole partition, and the coordinator reaches
\* its summary, in name mode after the final consolidation.
C12_WorkerIsolation ==
    /\ [][\A w \in CoordWorkerIds :
             (co.tasks[w].status = "running" /\ co'.tasks[w].fatal) =>
                 \A v \in CoordWorkerIds \ {w} : co'.tasks[v] = co.tasks[v]]_vars
    /\ [](co.state = "summary" =>
             /\ \A w \in CoordWorkerIds :
                   ~co.tasks[w].fatal =>
                       (co.tasks[w].status = "returned" /\ co.tasks[w].left = 0)
             /\ co.mode = "name" => co.final_saved)
    /\ <>(co.state = "summary")

\* the summary of a run in which one worker raised and another finished keys
C12_Witness ==
    /\ co.state = "summary"
    /\ \E w, v \in CoordWorkerIds :
          /\ co.tasks[w].status = "raised"
          /\ ~co.tasks[v].fatal
          /\ <<worker_sink(co.mode, v), Worker(v)>> \in co.writes

\* C13: no file has two writers: a worker's sink and checkpoint are written
\* by that worker only, a consolidated file by the consolidator only, and a
\* consolidation writes no worker sink and no checkpoint.
C13_FileOwnership ==
    /\ \A x, y \in co.writes : x[1] = y[1] => x[2] = y[2]
    /\ \A x \in co.writes :
          /\ x[1].kind \in {"alpha", "range", "progress_alpha", "progress"} =>
                 x[2] = Worker(x[1].id)
          /\ x[1] \in {DataFile, MergedFile, AllFile} => x[2] = Consolidator
          /\ x[2] = Consolidator => x[1] \in {DataFile, MergedFile, AllFile}

\* two workers have written rows while consolidations wrote their files
C13_Witness ==
    /\ \E w, v \in CoordWorkerIds :
          /\ w # v
          /\ <<worker_sink(co.mode, w), Worker(w)>> \in co.writes
          /\ <<worker_sink(co.mode, v), Worker(v)>> \in co.writes
    /\ <<DataFile, Consolidator>> \in co.writes
    /\ <<AllFile, Consolidator>> \in co.writes

(***************************************************************************)
(* Properties of the date conversion (checked under SpecConversion).       *)
(***************************************************************************)
\* C20: convert_date_to_iso is idempotent: converting the value it returned
\* for a string gives that value again.
C20_Idempotent == cv.pc = "twice" => cv.twice = cv.once

\* a date with slashes and white space around it was converted to the ISO
\* form, and the ISO form was converted again
C20_Witness ==
    /\ cv.pc = "twice"
    /\ cv.input = <<" ", "1", "/", " ", "5", "/", "2", "0", "2", "4", "\t">>
    /\ cv.once = <<"2", "0", "2", "4", "-", "0", "1", "-", "0", "5">>

(***************************************************************************)
(* Properties of the helper functions (checked under SpecAddress).         *)
(***************************************************************************)
AddressFields ==
    {"street_number", "street_name", "street_type", "street_direction", "unit", "city",
     "state", "zip"}

\* C21: parse_address and convert_date_to_iso are total: for every string,
\* for None and for the empty string neither raises, parse_address returns
\* the eight address fields as strings, all empty for None and the empty
\* string, and convert_date_to_iso returns a string.
C21_Total ==
    /\ ad.pc = "parsed" =>
          /\ ~ad.result.raised
          /\ AddressFields \subseteq DOMAIN ad.result
          /\ \A f \in AddressFields : DOMAIN ad.result[f] = 1 .. Len(ad.result[f])
          /\ falsy(ad.address_str) => \A f \in AddressFields : ad.result[f] = <<>>
    /\ ad.pc = "converted" =>
          /\ ~ad.converted.raised
          /\ DOMAIN ad.converted.text = 1 .. Len(ad.converted.text)

\* parse_address(None) has returned
C21_Witness == ad.pc = "parsed" /\ ad.address_str = PyNone

\* C22: for an address '<number> <name words> <street type> <direction>',
\* an optional unit line and '<city>, <ST> <zip>', parse_address returns the
\* number, the direction in upper case, the street type as it is written,
\* the remaining words as the street name, the unit line, and the city, the
\* state in upper case and the zip of the last line.
C22_StructuredAddress ==
    (ad.pc = "parsed" /\ ad.kind = "structured") =>
        /\ ad.result.street_number = ad.parts.number
        /\ ad.result.street_direction = ad.parts.direction
        /\ ad.result.street_type = ad.parts.type
        /\ ad.result.street_name = ad.parts.name
        /\ ad.result.unit = ad.parts.unit
        /\ ad.result.city = ad.parts.city
        /\ ad.result.state = ad.parts.state
        /\ ad.result.zip = ad.parts.zip

\* an address with a lower-case direction, a unit line, a lower-case state
\* and a zip with an en-dash has been parsed
C22_Witness ==
    /\ ad.pc = "parsed"
    /\ ad.kind = "structured"
    /\ ad.result.street_direction = <<"N">>
    /\ ad.result.street_name = <<"S", "t", " ", "C", "r", "o", "i", "x">>
    /\ ad.result.unit # <<>>
    /\ ad.result.zip = <<"5", "6", "3", "0", "1", "-", "1", "2", "3", "4">>
    /\ \E i \in 1 .. Len(ad.address_str.text) : ad.address_str.text[i] = "endash"

\* C23: when an address has several unit lines or several street lines, the
\* unit field is the first unit line and the street fields come from the
\* first street line.
C23_FirstLineOfEachClass ==
    (ad.pc = "parsed" /\ ad.kind = "lines") =>
        LET lines == split(ad.address_str.text, "\n") IN
        Len(lines) >= 2 =>
            /\ ad.result.unit = first_line(lines, is_unit_line)
            /\ LET street == parse_street(first_line(lines, is_street_line)) IN
               first_line(lines, is_street_line) # <<>> =>
                   /\ ad.result.street_number = street.street_number
                   /\ ad.result.street_name = street.street_name
                   /\ ad.result.street_type = street.street_type
                   /\ ad.result.street_direction = street.street_direction

(***************************************************************************)
(* Properties of the file-number worker (checked under SpecRange).         *)
(***************************************************************************)
\* C24: whenever a file-number worker has persisted a checkpoint with last
\* key K, every key from the start of the run through K that yielded a
\* record has that record in the worker's sink.
C24_RecordBeforeCheckpoint ==
    rw.saved >= 0 =>
        \A k \in rw.h.found : (rw.h.first <= k /\ k <= rw.saved) => k \in sink_keys(rw.output_file)

\* C25: at every point of a sequential run that was always started with
\* --resume, at most CheckpointEvery keys whose processing completed (their
\* rows are in the output file) are greater than the persisted checkpoint
C25_CheckpointLag ==
    Cardinality({k \in sink_keys(output_file) : k > CheckpointOf(progress_file)})
        <= CheckpointEvery

\* the lag within one run, from its first key on: the checkpoint the loop
\* last wrote is less than CheckpointEvery keys behind
C25_LagWithinRun ==
    (pc \in {"loop", "delay"} /\ hist.trail # <<>> /\ last_saved >= hist.first) =>
        current_file_number - 1 - last_saved < CheckpointEvery

\* C29: a pattern whose search failed with an exception or a timeout in
\* this run of the name-mode worker is not recorded in completed_patterns,
\* neither in memory nor in the checkpoint file
C29_FailedSearchNotCompleted ==
    nw.pc # "none" =>
        nw.h.failed \cap (nw.completed_patterns \cup PersistedPatterns) = {}

\* C30: in every interleaving of the workers and the auto-save task, no
\* run_auto_save, periodic or final, runs while a worker is between the
\* start and the end of a row append or of a checkpoint write, and none
\* reads a sink that ends with an incomplete row
C30_ConsolidationSeesCompleteRows ==
    co.mode = "name" =>
        \A r \in co.reads : r.during = {} /\ r.cut = {}

\* a periodic run_auto_save ran after a row was written and while at least
\* two workers still had work, and the final one ran too
C30_Witness ==
    /\ co.mode = "name"
    /\ co.state = "saved"
    /\ \E r \in co.reads : r.op = "periodic" /\ r.rows /\ Cardinality(r.busy) >= 2
    /\ \E r \in co.reads : r.op = "final" /\ r.rows

\* C28: a range worker restarted with a persisted checkpoint K that lies in
\* its partition never probes a key up to K again; with K = end it probes
\* nothing.
C28_NoReprobe ==
    (rw.h.resumed >= rw.start /\ rw.h.resumed <= rw.end) =>
        \A k \in rw.h.probed : k > rw.h.resumed

====
